---- MODULE Spec2Model ----
(***************************************************************************)
(* Hash-join core of the vectorized engine: the build operator's finishing *)
(* step and its hand-off to the probe units, the ownership of the shared   *)
(* table state, the serialized build/probe of the hash table and the       *)
(* multiplicity correction of remove_duplicate_index.                      *)
(*                                                                         *)
(* The module holds several specifications over disjoint groups of         *)
(* variables; each specification keeps the other groups at their idle      *)
(* value.                                                                  *)
(*   SpecLife / SpecLifeFair : HashJoinBuildOperator::set_finishing        *)
(*   SpecInput               : push_chunk and set_finishing                *)
(*   SpecOwn                 : JoinHashTable create / clone / close        *)
(*   SpecJoin                : append_chunk, build, lookup_init, probe     *)
(*   SpecDedup               : remove_duplicate_index                      *)
(*   SpecSelect              : _choose_join_hash_map and the dispatch      *)
(*   SpecRef                 : HashJoinBuildOperator::prepare / close      *)
(*   SpecAppend              : append_chunk on the build output columns    *)
(***************************************************************************)
EXTENDS Integers, Sequences, FiniteSets, TLC

VARIABLES
    \* ---- set_finishing and the probe hand-off (SpecLife)
    distribution_mode,  \* _distribution_mode
    op_pc,              \* position of each build operator in its life
    is_finished,        \* _is_finished
    ht_state,           \* outcome of JoinHashTable::build for each table
    builder_phase,      \* phase of each _join_builder
    prober_phase,       \* phase of each read-only prober
    prober_ht,          \* the table each read-only prober references
    merger_arrived,     \* PartialRuntimeFilterMerger: indices contributed
    rf_status,          \* result of this call's add_partial_filters
    did_publish,        \* this call ran lines 71-78
    publish_count,      \* set_collector calls for the plan node
    complete_count,     \* submissions that were told 'complete'
    dup_calls,          \* repeated set_finishing calls so far
    ht_log,             \* per table: chunks appended, build() runs
    \* ---- ownership of the shared table state (SpecOwn)
    ht_table_items,     \* each handle's _table_items: "null" or "items"
    own_join_type,      \* HashTableParam::join_type
    ht_probe_state,     \* each handle's _probe_state: <<>> (null) or <<id>>
    probe_states,       \* the HashTableProbeState objects, by id
    items,              \* the JoinHashTableItems object behind the shared_ptr
    \* ---- the hash table: append, build, probe (SpecJoin)
    param_join_keys,    \* HashTableParam::join_keys: is_null_safe_equal
    join_keys,          \* _table_items->join_keys: is_null_safe_equal
    build_chunk,        \* _table_items->build_chunk, one sequence per column
    row_count,          \* _table_items->row_count
    sum_appended,       \* rows of all chunks given to append_chunk
    bucket_size,        \* _table_items->bucket_size
    first,              \* _table_items->first, bucket b at b + 1
    next,               \* _table_items->next, row r at r + 1
    build_slice,        \* _table_items->build_slice, row r at r + 1
    jt_pc,              \* "append", "built", "failed", "probing", "probed"
    probe_rows,         \* the probe batch's key columns, row by row
    probe_nullable,     \* is_nullable() of each probe key column
    probe_slice,        \* _probe_state->probe_slice
    probe_next,         \* _probe_state->next: the chain cursors
    cur_probe_row,      \* the probe row the walk is at
    out_pairs,          \* (probe row, build row) pairs output for the batch
    out_batches,        \* output batches produced for the batch
    \* ---- remove_duplicate_index over a probe batch's rows (SpecDedup)
    join_type,          \* _table_items->join_type
    candidate_count,    \* candidates the probe found, per probe row
    all_probe_index,    \* the probe row of every row the probe outputs
    probe_match_index,  \* _probe_state->probe_match_index, per probe row
    rows_done,          \* rows of the output batches handled so far
    dedup_batches,      \* output batches handled so far
    filter_in,          \* the residual predicate's filter, all rows so far
    filter_out,         \* the filter after remove_duplicate_index
    all_build_index,    \* the build row of every row the probe outputs
    build_match_index,  \* _probe_state->build_match_index, per build row
    remain,             \* probe_remain: whether it ran, the rows it output
    \* ---- the choice of the hash map layout (SpecSelect)
    param_select_keys,  \* HashTableParam::join_keys with the columns' has_null
    select_keys,        \* _table_items->join_keys
    hash_map_type,      \* _hash_map_type
    select_op,          \* the last operation: create, build, probe, probe_remain
    select_status,      \* the status it returned
    \* ---- the build operator's references to the joiners (SpecRef)
    ref_mode,           \* _distribution_mode
    prep_pc,            \* each operator: created, prepared, failed, closed
    ref_calls,          \* ref() calls of each operator, per joiner
    unref_calls,        \* unref() calls of each operator, per joiner
    \* ---- append_chunk on the build output columns (SpecAppend)
    ap_need_tuple_columns, \* _need_create_tuple_columns
    ap_column,          \* a column of _table_items->build_chunk
    ap_markers,         \* the tuple columns of build_chunk, by tuple id
    ap_row_count        \* _table_items->row_count

lifeVars == <<distribution_mode, op_pc, is_finished, ht_state,
              builder_phase, prober_phase, prober_ht, merger_arrived,
              rf_status, did_publish, publish_count, complete_count,
              dup_calls, ht_log>>

ownVars == <<own_join_type, ht_table_items, ht_probe_state, probe_states,
            items>>

joinVars == <<param_join_keys, join_keys, build_chunk, row_count,
              sum_appended, bucket_size, first, next, build_slice, jt_pc,
              probe_rows, probe_nullable, probe_slice, probe_next,
              cur_probe_row, out_pairs,
              out_batches>>

dedupVars == <<join_type, candidate_count, all_probe_index,
               probe_match_index, rows_done, dedup_batches, filter_in,
               filter_out, all_build_index, build_match_index, remain>>

selectVars == <<param_select_keys, select_keys, hash_map_type, select_op,
                select_status>>

refVars == <<ref_mode, prep_pc, ref_calls, unref_calls>>

appendVars == <<ap_need_tuple_columns, ap_column, ap_markers, ap_row_count>>

vars == <<lifeVars, ownVars, joinVars, dedupVars, selectVars, refVars,
          appendVars>>

\* What the actions of one group leave alone.
lifeOthers == <<ownVars, joinVars, dedupVars, selectVars, refVars, appendVars>>
ownOthers == <<lifeVars, joinVars, dedupVars, selectVars, refVars, appendVars>>
joinOthers == <<lifeVars, ownVars, dedupVars, selectVars, refVars, appendVars>>
dedupOthers == <<lifeVars, ownVars, joinVars, selectVars, refVars, appendVars>>
selectOthers == <<lifeVars, ownVars, joinVars, dedupVars, refVars, appendVars>>
refOthers == <<lifeVars, ownVars, joinVars, dedupVars, selectVars, appendVars>>
appendOthers == <<lifeVars, ownVars, joinVars, dedupVars, selectVars, refVars>>

(***************************************************************************)
(* Bounds of the model.                                                    *)
(***************************************************************************)
NumUnits == 2
NumProbers == 2
MaxDuplicates == 1
MaxClones == 2
MaxScratch == 1
MaxOwnRows == 2
MaxBuildRows == 3
ChunkSize == 2
NumDedupRows == 2
MaxCandidates == 2
MaxKeys == 3
NumOperators == 3

(***************************************************************************)
(* SpecLife: N build operators (driver sequences 0..N-1) created by        *)
(* HashJoinBuildOperatorFactory::create, each run by its own driver.       *)
(* set_finishing is cut at the calls other threads can observe: build_ht,  *)
(* add_partial_filters, the publication, reference_hash_table, and the     *)
(* enter_probe_phase signals.                                              *)
(***************************************************************************)
Units == 0 .. (NumUnits - 1)
ProberIds == 1 .. NumProbers
NoTable == -1

\* Broadcast joins have one build operator whose table every read-only
\* prober references; partitioned joins have one private table per driver
\* and no read-only prober (the builder is its own prober).
EveryUnitIsActive == Units

ActiveUnits == IF distribution_mode = "BROADCAST" THEN {0} ELSE Units
ReadOnlyProbers == IF distribution_mode = "BROADCAST" THEN ProberIds ELSE {}

InitLife ==
    /\ distribution_mode \in {"BROADCAST", "PARTITIONED"}
    /\ op_pc = [u \in Units |-> "running"]
    /\ is_finished = [u \in Units |-> FALSE]
    /\ ht_state = [u \in Units |-> "BUILDING"]
    /\ builder_phase = [u \in Units |-> "BUILD"]
    /\ prober_phase = [p \in ProberIds |-> "BUILD"]
    /\ prober_ht = [p \in ProberIds |-> NoTable]
    /\ merger_arrived = {}
    /\ rf_status = [u \in Units |-> "NONE"]
    /\ did_publish = [u \in Units |-> FALSE]
    /\ publish_count = 0
    /\ complete_count = 0
    /\ dup_calls = 0
    /\ ht_log = [u \in Units |->
                    [appended |-> FALSE, builds |-> 0,
                     appended_after_finishing |-> FALSE]]

\* The results JoinHashTable::build can return: OK, or the allocation
\* failure of the serialized-key arena.
BuildResults == {"FINALIZED", "FAILED"}

\* HashJoiner::build_ht: builds the table while the joiner is in its build
\* phase, and returns build()'s status.
RunsBuild(u) == builder_phase[u] = "BUILD" /\ ht_state[u] = "BUILDING"

BuildHtOutcomes(u) ==
    IF RunsBuild(u)
    THEN BuildResults
    ELSE {ht_state[u]}

\* The driver gives a chunk to an operator only while the operator needs
\* input, which a build operator does until it is finished.
NeedInput(u) == ~is_finished[u]

\* push_chunk, lines 22-24, called by the unit's driver between two other
\* calls of the operator: the chunk is appended to the unit's table.
PushChunk(u) ==
    /\ u \in ActiveUnits
    /\ op_pc[u] \in {"running", "finished"}
    /\ NeedInput(u)
    /\ ht_log' = [ht_log EXCEPT
                     ![u].appended = TRUE,
                     ![u].appended_after_finishing =
                         @ \/ op_pc[u] = "finished"]
    /\ UNCHANGED <<distribution_mode, op_pc, is_finished, ht_state,
                   builder_phase, prober_phase, prober_ht, merger_arrived,
                   rf_status, did_publish, publish_count, complete_count,
                   dup_calls>>
    /\ UNCHANGED lifeOthers

LeaveUnfinished(u) == is_finished

\* set_finishing, line 52.
SetFinished(u) == [is_finished EXCEPT ![u] = TRUE]

\* set_finishing, lines 52-53.  The status build_ht returns is dropped:
\* the handler is void and goes on to line 55 whatever the outcome.
AfterBuildHt(result) == "built"

\* The first call of set_finishing, or a repeated one on a finished
\* operator.
BuildHt(u) ==
    /\ u \in ActiveUnits
    /\ \/ /\ op_pc[u] = "running"
          /\ UNCHANGED dup_calls
       \/ /\ op_pc[u] = "finished"
          /\ dup_calls < MaxDuplicates
          /\ dup_calls' = dup_calls + 1
    /\ is_finished' = SetFinished(u)
    /\ \E r \in BuildHtOutcomes(u) :
          /\ ht_state' = [ht_state EXCEPT ![u] = r]
          /\ op_pc' = [op_pc EXCEPT ![u] = AfterBuildHt(r)]
    /\ ht_log' = IF RunsBuild(u)
                 THEN [ht_log EXCEPT ![u].builds = @ + 1]
                 ELSE ht_log
    /\ rf_status' = [rf_status EXCEPT ![u] = "NONE"]
    /\ did_publish' = [did_publish EXCEPT ![u] = FALSE]
    /\ UNCHANGED <<distribution_mode, builder_phase, prober_phase,
                   prober_ht, merger_arrived, publish_count, complete_count>>
    /\ UNCHANGED lifeOthers

\* set_finishing, line 57: the condition of the DCHECK.
FinishingAssertion(u) == distribution_mode # "BROADCAST" \/ u = 0

\* PartialRuntimeFilterMerger::add_partial_filters(idx, ...): records the
\* contribution and answers whether the set has just become complete; a
\* failed merge answers with an error and records nothing.
MergerAnswers(idx) ==
    {"ERROR"} \cup
    {IF merger_arrived # ActiveUnits /\ merger_arrived \cup {idx} = ActiveUnits
     THEN "COMPLETE" ELSE "INCOMPLETE"}

\* set_finishing, lines 55-69.
AddPartialFilters(u) ==
    /\ u \in ActiveUnits
    /\ op_pc[u] = "built"
    /\ \E a \in MergerAnswers(u) :
          /\ rf_status' = [rf_status EXCEPT ![u] = a]
          /\ merger_arrived' =
                IF a = "ERROR" THEN merger_arrived ELSE merger_arrived \cup {u}
          /\ complete_count' =
                IF a = "COMPLETE" THEN complete_count + 1 ELSE complete_count
    /\ op_pc' = [op_pc EXCEPT ![u] = "submitted"]
    /\ UNCHANGED <<distribution_mode, is_finished, ht_state,
                   builder_phase, prober_phase, prober_ht, did_publish,
                   publish_count, dup_calls,
                   ht_log>>
    /\ UNCHANGED lifeOthers

ShouldPublishAnyOk(status) == status # "ERROR"

\* set_finishing, line 70: status.ok() && status.value().
ShouldPublish(status) == status = "COMPLETE"

\* set_finishing, lines 70-79.
Publish(u) ==
    /\ u \in ActiveUnits
    /\ op_pc[u] = "submitted"
    /\ IF ShouldPublish(rf_status[u])
       THEN /\ publish_count' = publish_count + 1
            /\ did_publish' = [did_publish EXCEPT ![u] = TRUE]
       ELSE UNCHANGED <<publish_count, did_publish>>
    /\ op_pc' = [op_pc EXCEPT ![u] = "published"]
    /\ UNCHANGED <<distribution_mode, is_finished, ht_state,
                   builder_phase, prober_phase, prober_ht, merger_arrived,
                   rf_status, complete_count, dup_calls,
                   ht_log>>
    /\ UNCHANGED lifeOthers

ReferenceWaitsForPublication(u) == op_pc[u] = "published" /\ publish_count > 0

\* set_finishing reaches line 81 straight from line 79.
ReferenceGuard(u) == op_pc[u] = "published"

\* set_finishing, lines 81-83.
ReferenceHashTable(u) ==
    /\ u \in ActiveUnits
    /\ ReferenceGuard(u)
    /\ prober_ht' = [p \in ProberIds |->
                        IF p \in ReadOnlyProbers THEN u ELSE prober_ht[p]]
    /\ op_pc' = [op_pc EXCEPT ![u] = "referenced"]
    /\ UNCHANGED <<distribution_mode, is_finished, ht_state,
                   builder_phase, prober_phase, merger_arrived, rf_status,
                   did_publish, publish_count, complete_count, dup_calls,
                   ht_log>>
    /\ UNCHANGED lifeOthers

\* set_finishing, lines 84-87; HashJoiner::enter_probe_phase moves a joiner
\* from BUILD to PROBE and leaves a joiner that is already probing alone.
EnterProbePhase(u) ==
    /\ u \in ActiveUnits
    /\ op_pc[u] = "referenced"
    /\ builder_phase' = [builder_phase EXCEPT ![u] = "PROBE"]
    /\ prober_phase' = [p \in ProberIds |->
                           IF p \in ReadOnlyProbers THEN "PROBE"
                           ELSE prober_phase[p]]
    /\ op_pc' = [op_pc EXCEPT ![u] = "finished"]
    /\ UNCHANGED <<distribution_mode, is_finished, ht_state,
                   prober_ht, merger_arrived, rf_status, did_publish,
                   publish_count, complete_count, dup_calls,
                   ht_log>>
    /\ UNCHANGED lifeOthers

\* What is left of set_finishing once build_ht has returned.
FinishingStep(u) ==
    \/ AddPartialFilters(u)
    \/ Publish(u)
    \/ ReferenceHashTable(u)
    \/ EnterProbePhase(u)

NextLife ==
    \E u \in Units :
        \/ BuildHt(u)
        \/ AddPartialFilters(u)
        \/ Publish(u)
        \/ ReferenceHashTable(u)
        \/ EnterProbePhase(u)

\* The operator with its input: the driver's push_chunk calls besides
\* set_finishing.  push_chunk writes the table's log only, which no step
\* of set_finishing reads.
NextInput == NextLife \/ \E u \in Units : PushChunk(u)

(***************************************************************************)
(* SpecOwn: the JoinHashTable handles of one join.  Handle 0 is the        *)
(* builder's table; the others are the handles clone_readable_table makes  *)
(* for the probers.  _table_items is a std::shared_ptr: the object lives   *)
(* while a handle holds it.  The joiners close their handles in any order. *)
(***************************************************************************)
HandleIds == 0 .. MaxClones

\* TJoinOp, the join types of a hash join.
JoinOps == {"INNER_JOIN", "LEFT_OUTER_JOIN", "LEFT_SEMI_JOIN",
            "LEFT_ANTI_JOIN", "NULL_AWARE_LEFT_ANTI_JOIN",
            "RIGHT_OUTER_JOIN", "RIGHT_SEMI_JOIN", "RIGHT_ANTI_JOIN",
            "FULL_OUTER_JOIN"}

NoItems == [state |-> "unallocated", use_count |-> 0, row_count |-> 0,
            built |-> FALSE, join_type |-> "none",
            left_to_nullable |-> FALSE, right_to_nullable |-> FALSE]

\* A HashTableProbeState as create makes it (line 239): the chain cursor
\* and an empty build_match_index.
NoProbeState == [next |-> 0, build_match_index |-> <<>>]

InitOwn ==
    /\ own_join_type \in JoinOps
    /\ ht_table_items = [h \in HandleIds |-> "null"]
    /\ ht_probe_state = [h \in HandleIds |-> <<>>]
    /\ probe_states = [id \in HandleIds |-> NoProbeState]
    /\ items = NoItems

IsOpen(h) == ht_table_items[h] = "items"

PromotionFlagsOfOuterJoins(jt) ==
    [left_to_nullable |-> jt \in {"RIGHT_OUTER_JOIN", "FULL_OUTER_JOIN"},
     right_to_nullable |-> jt \in {"LEFT_OUTER_JOIN", "FULL_OUTER_JOIN"}]

\* create, lines 249-260; both flags are false in a new JoinHashTableItems.
PromotionFlags(jt) ==
    IF jt \in {"RIGHT_SEMI_JOIN", "RIGHT_ANTI_JOIN", "RIGHT_OUTER_JOIN"}
    THEN [left_to_nullable |-> TRUE, right_to_nullable |-> FALSE]
    ELSE IF jt \in {"LEFT_SEMI_JOIN", "LEFT_ANTI_JOIN",
                    "NULL_AWARE_LEFT_ANTI_JOIN", "LEFT_OUTER_JOIN"}
    THEN [left_to_nullable |-> FALSE, right_to_nullable |-> TRUE]
    ELSE IF jt = "FULL_OUTER_JOIN"
    THEN [left_to_nullable |-> TRUE, right_to_nullable |-> TRUE]
    ELSE [left_to_nullable |-> FALSE, right_to_nullable |-> FALSE]

\* JoinHashTable::create, lines 238-260: make_shared, row_count = 0, the
\* join type and its flags, and a new probe state.
OwnCreate ==
    /\ items.state = "unallocated"
    /\ items' = [state |-> "alive", use_count |-> 1, row_count |-> 0,
                 built |-> FALSE, join_type |-> own_join_type,
                 left_to_nullable |->
                     PromotionFlags(own_join_type).left_to_nullable,
                 right_to_nullable |->
                     PromotionFlags(own_join_type).right_to_nullable]
    /\ ht_table_items' = [ht_table_items EXCEPT ![0] = "items"]
    /\ ht_probe_state' = [ht_probe_state EXCEPT ![0] = <<0>>]
    /\ probe_states' = [probe_states EXCEPT ![0] = NoProbeState]
    /\ UNCHANGED own_join_type
    /\ UNCHANGED ownOthers

\* JoinHashTable::append_chunk, line 427, through the builder's handle.
OwnAppendChunk(n) ==
    /\ IsOpen(0)
    /\ ~items.built
    /\ items.row_count + n <= MaxOwnRows
    /\ items' = [items EXCEPT !.row_count = @ + n]
    /\ UNCHANGED <<own_join_type, ht_table_items, ht_probe_state,
                   probe_states>>
    /\ UNCHANGED ownOthers

BuildMatchIndexAllZero(jt, rc) ==
    IF jt \in {"RIGHT_OUTER_JOIN", "FULL_OUTER_JOIN", "RIGHT_SEMI_JOIN",
               "RIGHT_ANTI_JOIN"}
    THEN [i \in 1 .. rc + 1 |-> 0]
    ELSE <<>>

\* build, lines 329-333: resize(row_count + 1, 0) and [0] = 1 (row r at
\* r + 1).
BuildMatchIndex(jt, rc) ==
    IF jt \in {"RIGHT_OUTER_JOIN", "FULL_OUTER_JOIN", "RIGHT_SEMI_JOIN",
               "RIGHT_ANTI_JOIN"}
    THEN [i \in 1 .. rc + 1 |-> IF i = 1 THEN 1 ELSE 0]
    ELSE <<>>

\* JoinHashTable::build through the builder's handle.
OwnBuild ==
    /\ IsOpen(0)
    /\ ~items.built
    /\ items' = [items EXCEPT !.built = TRUE]
    /\ probe_states' =
          [probe_states EXCEPT ![ht_probe_state[0][1]].build_match_index =
              BuildMatchIndex(items.join_type, items.row_count)]
    /\ UNCHANGED <<own_join_type, ht_table_items, ht_probe_state>>
    /\ UNCHANGED ownOthers

FreeOnRelease(it) == [NoItems EXCEPT !.state = "freed"]

\* One shared_ptr to the items goes away (reset, or being overwritten):
\* the object is destroyed with the last one.
ReleaseItems(it) ==
    IF it.use_count = 1
    THEN [NoItems EXCEPT !.state = "freed"]
    ELSE [it EXCEPT !.use_count = @ - 1]

\* Line 210 copies the shared_ptr.
ShareItems(it) == [it EXCEPT !.use_count = @ + 1]

SameProbeState(src, dst) == ht_probe_state[src][1]

\* Line 212: make_unique makes a new HashTableProbeState object for the
\* clone.  A handle owns at most one probe state, named after the handle.
NewProbeState(src, dst) == dst

\* JoinHashTable::clone_readable_table on src, the result move-assigned to
\* the prober's table dst (reference_hash_table); what dst held before is
\* released.  The new probe state is a copy of the source's.
CloneReadableTable(src, dst) ==
    /\ src # dst
    /\ IsOpen(src)
    /\ items' = IF IsOpen(dst) THEN ReleaseItems(ShareItems(items))
                ELSE ShareItems(items)
    /\ ht_table_items' = [ht_table_items EXCEPT ![dst] = ht_table_items[src]]
    /\ ht_probe_state' =
          [ht_probe_state EXCEPT ![dst] = <<NewProbeState(src, dst)>>]
    /\ probe_states' =
          [probe_states EXCEPT ![NewProbeState(src, dst)] =
              probe_states[ht_probe_state[src][1]]]
    /\ UNCHANGED own_join_type
    /\ UNCHANGED ownOthers

\* JoinHashTable::close, lines 231-234; a handle that holds nothing stays
\* as it is.
Close(h) ==
    /\ items' = IF IsOpen(h) THEN ReleaseItems(items) ELSE items
    /\ ht_table_items' = [ht_table_items EXCEPT ![h] = "null"]
    /\ ht_probe_state' = [ht_probe_state EXCEPT ![h] = <<>>]
    /\ probe_states' =
          IF ht_probe_state[h] = <<>> THEN probe_states
          ELSE [probe_states EXCEPT ![ht_probe_state[h][1]] = NoProbeState]
    /\ UNCHANGED own_join_type
    /\ UNCHANGED ownOthers

\* A probe batch through handle h: reads the shared items and writes the
\* probe state the handle owns; the cursor goes to the next build row, and
\* remove_duplicate_index marks that row where the join type keeps marks.
ProbedState(st, rc) ==
    LET cur == (st.next + 1) % (MaxScratch + 1)
    IN [next |-> cur,
        build_match_index |->
            [i \in DOMAIN st.build_match_index |->
                IF i = cur + 1 /\ cur \in 1 .. rc THEN 1
                ELSE st.build_match_index[i]]]

OwnProbe(h) ==
    /\ IsOpen(h)
    /\ items.built
    /\ probe_states' =
          [probe_states EXCEPT ![ht_probe_state[h][1]] =
              ProbedState(@, items.row_count)]
    /\ UNCHANGED <<own_join_type, ht_table_items, ht_probe_state, items>>
    /\ UNCHANGED ownOthers

NextOwn ==
    \/ OwnCreate
    \/ \E n \in 1 .. MaxOwnRows : OwnAppendChunk(n)
    \/ OwnBuild
    \/ \E src, dst \in HandleIds : CloneReadableTable(src, dst)
    \/ \E h \in HandleIds : Close(h)
    \/ \E h \in HandleIds : OwnProbe(h)

(***************************************************************************)
(* SpecJoin: one JoinHashTable with two join keys of a type without fixed  *)
(* width, so that _choose_join_hash_map picks the serialized layout.       *)
(* A cell is a value or NullCell; a row holds one cell per key; column k   *)
(* of the build chunk is the key column k.                                 *)
(***************************************************************************)
NullCell == 0 - 1
KeyIds == {1, 2}
BuildRowVals == {<<0, 1>>, <<1, 1>>, <<2, 1>>, <<NullCell, 1>>, <<1, NullCell>>}
ProbeRowVals == BuildRowVals \cup {<<3, 1>>}

IsNull(c) == c = NullCell

\* The data column of a nullable column holds the default value under a
\* null.
DataOf(c) == IF IsNull(c) THEN 0 ELSE c

HasNull(col) == \E i \in DOMAIN col : IsNull(col[i])

RECURSIVE SumSeq(_)
SumSeq(s) == IF s = <<>> THEN 0 ELSE Head(s) + SumSeq(Tail(s))

\* JoinHashMapHelper::calc_bucket_size: a power of two that holds the rows.
RECURSIVE PowerOfTwoAtLeast(_, _)
PowerOfTwoAtLeast(p, n) == IF p >= n THEN p ELSE PowerOfTwoAtLeast(2 * p, n)

CalcBucketSize(n) == PowerOfTwoAtLeast(2, n)

\* JoinHashMapHelper::calc_bucket_num<Slice>: a hash of the key's bytes,
\* reduced to the bucket range.  Different keys may share a bucket.
KeyHash(slice) == SumSeq([i \in DOMAIN slice |-> (slice[i] + 1) \div 2])

CalcBucketNum(slice, size) == KeyHash(slice) % size

\* Column::serialize of one cell: the cell of a nullable column is
\* serialized with its null flag (a NULL is another byte pattern), the
\* cell of any other column as its data.
SerializeCell(c, nullable) ==
    IF nullable THEN <<IF IsNull(c) THEN 1 ELSE 0, DataOf(c)>>
    ELSE <<DataOf(c)>>

\* JoinHashMapHelper::get_hash_key: the data columns' cells of one row,
\* serialized one after the other; nullable[k] tells whether the data
\* column of key k is a nullable column.
GetHashKey(row, nullable) ==
    SerializeCell(row[1], nullable[1]) \o SerializeCell(row[2], nullable[2])

\* The data columns of construct_hash_table (lines 31-43) and of
\* lookup_init (lines 125-137): the key column as it is for a null-safe
\* key, the data column of a nullable column or the column itself for
\* another key.
DataColumns(flags, nullable) == [k \in KeyIds |-> flags[k] /\ nullable[k]]

InitJoin ==
    /\ param_join_keys \in [KeyIds -> BOOLEAN]
    /\ join_keys = param_join_keys
    /\ build_chunk = [k \in KeyIds |-> <<0>>]
    /\ row_count = 0
    /\ sum_appended = 0
    /\ bucket_size = 0
    /\ first = <<>>
    /\ next = <<>>
    /\ build_slice = <<>>
    /\ jt_pc = "append"
    /\ probe_rows = <<>>
    /\ probe_nullable = [k \in KeyIds |-> FALSE]
    /\ probe_slice = <<>>
    /\ probe_next = <<>>
    /\ cur_probe_row = 0
    /\ out_pairs = <<>>
    /\ out_batches = 0

\* Row r of the build side, r in 0 .. row_count (row 0 is the default row
\* create appends to every column).
BuildRow(r) == [k \in KeyIds |-> build_chunk[k][r + 1]]

ChunkColumn(chunk, k) == [i \in DOMAIN chunk |-> chunk[i][k]]

RowCountPlusOne(rc, num_rows) == rc + 1

\* append_chunk, line 427.
AppendedRowCount(rc, num_rows) == rc + num_rows

\* append_chunk, lines 396-404: columns[i]->append(*column, 0, num_rows).
AppendColumn(col, src, num_rows) == col \o SubSeq(src, 1, num_rows)

AppendResizesNext(index, num_rows) ==
    [index EXCEPT !.next = @ \o [i \in 1 .. num_rows |-> 0]]

\* append_chunk, lines 388-427, writes the columns of build_chunk and
\* row_count; bucket_size, first, next and build_slice are not named in it.
AppendLeavesIndex(index, num_rows) == index

\* JoinHashTable::append_chunk.
AppendChunk(chunk) ==
    /\ jt_pc = "append"
    /\ row_count + Len(chunk) <= MaxBuildRows
    /\ build_chunk' = [k \in KeyIds |->
          AppendColumn(build_chunk[k], ChunkColumn(chunk, k), Len(chunk))]
    /\ row_count' = AppendedRowCount(row_count, Len(chunk))
    /\ sum_appended' = sum_appended + Len(chunk)
    /\ LET index == AppendLeavesIndex(
                        [bucket_size |-> bucket_size, first |-> first,
                         next |-> next, build_slice |-> build_slice],
                        Len(chunk))
       IN /\ bucket_size' = index.bucket_size
          /\ first' = index.first
          /\ next' = index.next
          /\ build_slice' = index.build_slice
    /\ UNCHANGED <<param_join_keys, join_keys, jt_pc, probe_rows,
                   probe_nullable, probe_slice, probe_next, cur_probe_row,
                   out_pairs, out_batches>>
    /\ UNCHANGED joinOthers

\* _choose_join_hash_map, lines 464-468: a key whose build column holds no
\* NULL is compared as an ordinary key.
ChooseFlags(flags) ==
    [k \in KeyIds |-> flags[k] /\ HasNull(build_chunk[k])]

\* construct_hash_table, lines 31-43: the null columns of the keys that
\* are not null-safe and hold a NULL.
BuildNullColumns(flags) ==
    {k \in KeyIds : ~flags[k] /\ HasNull(build_chunk[k])}

BuildIsNullInFirstColumn(r, null_columns) ==
    IsNull(build_chunk[CHOOSE k \in null_columns :
                          \A o \in null_columns : k <= o][r + 1])

\* _build_nullable_columns, lines 94-101.
BuildIsNull(r, null_columns) ==
    \E k \in null_columns : IsNull(build_chunk[k][r + 1])

\* The build column of a key that is still null-safe holds a NULL (lines
\* 464-468), so it is a nullable column.
BuildNullable == [k \in KeyIds |-> HasNull(build_chunk[k])]

LinkRowLosingChain(t, r, flags, size) ==
    LET key == GetHashKey(BuildRow(r), DataColumns(flags, BuildNullable))
        b == CalcBucketNum(key, size)
    IN [first |-> [t.first EXCEPT ![b + 1] = r],
        next |-> t.next,
        slice |-> [t.slice EXCEPT ![r + 1] = key]]

\* Lines 79-82 and 86-87 (105-108 and 114-115) for one row: the key view,
\* its bucket, and the row put at the head of the bucket's chain.
LinkRow(t, r, flags, size) ==
    LET key == GetHashKey(BuildRow(r), DataColumns(flags, BuildNullable))
        b == CalcBucketNum(key, size)
    IN [first |-> [t.first EXCEPT ![b + 1] = r],
        next |-> [t.next EXCEPT ![r + 1] = t.first[b + 1]],
        slice |-> [t.slice EXCEPT ![r + 1] = key]]

\* _build_columns / _build_nullable_columns over rows start .. start +
\* count - 1; with null columns, a row with a NULL in one of them is
\* skipped.
RECURSIVE BuildColumns(_, _, _, _, _, _)
BuildColumns(t, start, count, flags, size, null_columns) ==
    IF count = 0 THEN t
    ELSE BuildColumns(
             IF null_columns # {} /\ BuildIsNull(start, null_columns)
             THEN t ELSE LinkRow(t, start, flags, size),
             start + 1, count - 1, flags, size, null_columns)

\* construct_hash_table, lines 54-70: quo passes of chunk_size rows and one
\* of the remainder, from row 1.
RECURSIVE BuildPasses(_, _, _, _, _, _)
BuildPasses(t, start, left, flags, size, null_columns) ==
    IF left = 0 THEN t
    ELSE LET count == IF left >= ChunkSize THEN ChunkSize ELSE left
         IN BuildPasses(
                BuildColumns(t, start, count, flags, size, null_columns),
                start + count, left - count, flags, size, null_columns)

\* build_pool->allocate, line 50: the arena's memory, or a null pointer.
Allocations == {"memory", "null"}

ConstructThenCheck(ptr, t, flags, size, null_columns) ==
    BuildPasses(t, 1, row_count, flags, size, null_columns)

\* construct_hash_table, lines 50-70: without memory for the keys it
\* returns MemoryAllocFailed before the first pass.
ConstructHashTable(ptr, t, flags, size, null_columns) ==
    IF ptr = "null" THEN t
    ELSE BuildPasses(t, 1, row_count, flags, size, null_columns)

\* JoinHashTable::build with the serialized layout: the flags, bucket_size,
\* first and next (lines 325-328), then construct_hash_table, whose
\* status build returns (line 343): "failed" is MemoryAllocFailed.
Build ==
    /\ jt_pc = "append"
    /\ \E ptr \in Allocations :
          LET flags == ChooseFlags(join_keys)
              size == CalcBucketSize(row_count + 1)
              empty == [first |-> [b \in 1 .. size |-> 0],
                        next |-> [r \in 1 .. row_count + 1 |-> 0],
                        slice |-> [r \in 1 .. row_count + 1 |-> <<>>]]
              t == ConstructHashTable(ptr, empty, flags, size,
                                      BuildNullColumns(flags))
          IN /\ join_keys' = flags
             /\ bucket_size' = size
             /\ first' = t.first
             /\ next' = t.next
             /\ build_slice' = t.slice
             /\ jt_pc' = IF ptr = "null" THEN "failed" ELSE "built"
    /\ UNCHANGED <<param_join_keys, build_chunk, row_count, sum_appended,
                   probe_rows, probe_nullable, probe_slice, probe_next,
                   cur_probe_row, out_pairs, out_batches>>
    /\ UNCHANGED joinOthers

\* lookup_init, lines 125-137.
ProbeNullColumns(batch) ==
    {k \in KeyIds : ~join_keys[k] /\ HasNull(ChunkColumn(batch, k))}

\* _probe_nullable_column, lines 177-184.
ProbeIsNull(row, null_columns) == \E k \in null_columns : IsNull(row[k])

ProbeCursorSkipsNullRows(row, null_columns, nullable, stale) ==
    IF null_columns # {} /\ ProbeIsNull(row, null_columns)
    THEN stale
    ELSE first[CalcBucketNum(
                   GetHashKey(row, DataColumns(join_keys, nullable)),
                   bucket_size) + 1]

\* _probe_column / _probe_nullable_column: a row's first cursor, stored
\* over the cursor stale that an earlier batch left in probe_state->next.
ProbeCursor(row, null_columns, nullable, stale) ==
    IF null_columns # {} /\ ProbeIsNull(row, null_columns)
    THEN 0
    ELSE first[CalcBucketNum(
                   GetHashKey(row, DataColumns(join_keys, nullable)),
                   bucket_size) + 1]

\* The nullability of a probe batch's key columns: a column that holds a
\* NULL is nullable; the column of a key that is not null-safe is taken
\* apart in lookup_init, so only has_null matters for it.
ProbeNullables(batch) ==
    {n \in [KeyIds -> BOOLEAN] :
        \A k \in KeyIds :
            /\ HasNull(ChunkColumn(batch, k)) => n[k]
            /\ ~join_keys[k] => (n[k] <=> HasNull(ChunkColumn(batch, k)))}

LookupInitStoresInTable(cursors) ==
    [probe_next |-> cursors,
     next |-> [r \in DOMAIN next |->
                  IF r \in DOMAIN cursors THEN cursors[r] ELSE next[r]]]

\* _probe_column, lines 167-169, and _probe_nullable_column, lines 193-201:
\* the cursors are stored in probe_state->next; table_items is read only.
LookupInitStores(cursors) == [probe_next |-> cursors, next |-> next]

\* What an earlier batch left in an entry of probe_state->next: 0 from a
\* chain walked to its end, or a build row (the last one stands for all).
StaleCursors == {0, row_count}

\* SerializedJoinProbeFunc::lookup_init on a probe batch.  It overwrites
\* the whole probe state, so every batch is modelled from the built table,
\* with a stale cursor in the entries of probe_state->next.
LookupInit(batch, nullable, stale) ==
    /\ jt_pc = "built"
    /\ nullable \in ProbeNullables(batch)
    /\ stale \in StaleCursors
    /\ probe_rows' = batch
    /\ probe_nullable' = nullable
    /\ probe_slice' =
          [i \in DOMAIN batch |->
              GetHashKey(batch[i], DataColumns(join_keys, nullable))]
    /\ LET stored == LookupInitStores(
                         [i \in DOMAIN batch |->
                             ProbeCursor(batch[i], ProbeNullColumns(batch),
                                         nullable, stale)])
       IN /\ probe_next' = stored.probe_next
          /\ next' = stored.next
    /\ cur_probe_row' = 1
    /\ out_pairs' = <<>>
    /\ out_batches' = 0
    /\ jt_pc' = "probing"
    /\ UNCHANGED <<param_join_keys, join_keys, build_chunk, row_count,
                   sum_appended, bucket_size, first, build_slice>>
    /\ UNCHANGED joinOthers

\* The chain walk of JoinHashMap::probe: from probe row i at build row cur,
\* follow next[], keep the build rows whose key view equals the probe
\* row's, and stop with the cursor saved when the output batch is full.
RECURSIVE Walk(_, _, _, _)
Walk(i, cur, cursors, out) ==
    IF i > Len(probe_rows)
    THEN [row |-> i, cursors |-> cursors, out |-> out]
    ELSE IF cur = 0
    THEN Walk(i + 1,
              IF i + 1 <= Len(probe_rows) THEN cursors[i + 1] ELSE 0,
              [cursors EXCEPT ![i] = 0], out)
    ELSE IF Len(out) = ChunkSize
    THEN [row |-> i, cursors |-> [cursors EXCEPT ![i] = cur], out |-> out]
    ELSE Walk(i, next[cur + 1], cursors,
              IF build_slice[cur + 1] = probe_slice[i]
              THEN Append(out, <<i, cur>>) ELSE out)

\* One call of probe: one output batch.
ProbeStep ==
    /\ jt_pc = "probing"
    /\ LET w == Walk(cur_probe_row, probe_next[cur_probe_row], probe_next,
                     <<>>)
       IN /\ out_pairs' = out_pairs \o w.out
          /\ probe_next' = w.cursors
          /\ cur_probe_row' = w.row
          /\ jt_pc' = IF w.row > Len(probe_rows) THEN "probed" ELSE "probing"
    /\ out_batches' = out_batches + 1
    /\ UNCHANGED <<param_join_keys, join_keys, build_chunk, row_count,
                   sum_appended, bucket_size, first, next, build_slice,
                   probe_rows, probe_nullable, probe_slice>>
    /\ UNCHANGED joinOthers

RECURSIVE SeqsUpTo(_, _)
SeqsUpTo(S, n) ==
    IF n = 0 THEN {<<>>}
    ELSE LET shorter == SeqsUpTo(S, n - 1)
         IN shorter \cup {Append(s, x) : s \in shorter, x \in S}

\* Chunks hold between 1 and chunk_size rows.
BuildChunks == SeqsUpTo(BuildRowVals, ChunkSize) \ {<<>>}
ProbeChunks == SeqsUpTo(ProbeRowVals, ChunkSize) \ {<<>>}

NextJoin ==
    \/ \E chunk \in BuildChunks : AppendChunk(chunk)
    \/ Build
    \/ \E batch \in ProbeChunks, nullable \in [KeyIds -> BOOLEAN],
             stale \in 0 .. MaxBuildRows :
          LookupInit(batch, nullable, stale)
    \/ ProbeStep

(***************************************************************************)
(* SpecDedup: remove_duplicate_index on the output batches of a probe, and *)
(* probe_remain after them.  The probe outputs, for each probe row in turn,*)
(* one row per candidate build row; under the join types that keep         *)
(* unmatched probe rows it outputs a single row without build row (build   *)
(* index 0) for a probe row without candidate, and leaves the candidate    *)
(* count in probe_match_index.  The residual predicate's filter of each    *)
(* output batch is an input.                                               *)
(***************************************************************************)
DedupRows == 1 .. NumDedupRows
DedupBuildRows == 1 .. MaxCandidates
DedupJoinTypes == {"INNER_JOIN",
                   "LEFT_OUTER_JOIN", "LEFT_SEMI_JOIN", "LEFT_ANTI_JOIN",
                   "NULL_AWARE_LEFT_ANTI_JOIN", "RIGHT_OUTER_JOIN",
                   "RIGHT_SEMI_JOIN", "RIGHT_ANTI_JOIN", "FULL_OUTER_JOIN"}

\* The join types whose probe outputs a row for a probe row without
\* candidate and counts the candidates in probe_match_index.
KeepsProbeRows == {"LEFT_OUTER_JOIN", "LEFT_ANTI_JOIN",
                   "NULL_AWARE_LEFT_ANTI_JOIN", "FULL_OUTER_JOIN"}

\* JoinHashTable::build, lines 329-330: the join types with build_match_index.
MarksBuildRows == {"RIGHT_OUTER_JOIN", "FULL_OUTER_JOIN", "RIGHT_SEMI_JOIN",
                   "RIGHT_ANTI_JOIN"}

\* A chain yields its rows from the last one linked to the first.
RECURSIVE ChainOrder(_)
ChainOrder(S) ==
    IF S = {} THEN <<>>
    ELSE LET m == CHOOSE x \in S : \A y \in S : y <= x
         IN <<m>> \o ChainOrder(S \ {m})

\* The (probe row, build row) rows the probe outputs for probe rows
\* p .. NumDedupRows whose candidate build rows are cands[p].
RECURSIVE ProbeOutput(_, _, _)
ProbeOutput(jt, cands, p) ==
    IF p > NumDedupRows THEN <<>>
    ELSE LET chain == ChainOrder(cands[p])
             rows == IF chain = <<>>
                     THEN IF jt \in KeepsProbeRows THEN <<<<p, 0>>>> ELSE <<>>
                     ELSE [i \in DOMAIN chain |-> <<p, chain[i]>>]
         IN rows \o ProbeOutput(jt, cands, p + 1)

InitDedup ==
    /\ join_type \in DedupJoinTypes
    /\ \E cands \in [DedupRows -> SUBSET DedupBuildRows] :
          LET out == ProbeOutput(join_type, cands, 1)
          IN /\ candidate_count = [p \in DedupRows |-> Cardinality(cands[p])]
             /\ all_probe_index = [i \in DOMAIN out |-> out[i][1]]
             /\ all_build_index = [i \in DOMAIN out |-> out[i][2]]
    /\ probe_match_index =
          IF join_type \in KeepsProbeRows THEN candidate_count
          ELSE [p \in DedupRows |-> 0]
    /\ build_match_index = [b \in 0 .. MaxCandidates |-> IF b = 0 THEN 1 ELSE 0]
    /\ rows_done = 0
    /\ dedup_batches = 0
    /\ filter_in = <<>>
    /\ filter_out = <<>>
    /\ remain = [done |-> FALSE, rows |-> <<>>]

LeftOuterRowCountsDownToZero(st, probe_index, i) ==
    LET p == probe_index[i]
    IN IF st.probe_match_index[p] = 0
       THEN [st EXCEPT !.filter[i] = 1]
       ELSE IF st.filter[i] = 0
            THEN [st EXCEPT !.probe_match_index[p] = @ - 1]
            ELSE st

LeftOuterRowCountsEveryCandidate(st, probe_index, i) ==
    LET p == probe_index[i]
    IN IF st.probe_match_index[p] = 0
       THEN [st EXCEPT !.filter[i] = 1]
       ELSE IF st.probe_match_index[p] = 1
       THEN [st EXCEPT !.filter[i] = 1]
       ELSE [st EXCEPT !.probe_match_index[p] = @ - 1]

\* _remove_duplicate_index_for_left_outer_join, lines 568-582: row i.
LeftOuterRow(st, probe_index, i) ==
    LET p == probe_index[i]
    IN IF st.probe_match_index[p] = 0
       THEN [st EXCEPT !.filter[i] = 1]
       ELSE IF st.probe_match_index[p] = 1
       THEN IF st.filter[i] = 0 THEN [st EXCEPT !.filter[i] = 1] ELSE st
       ELSE IF st.filter[i] = 0
            THEN [st EXCEPT !.probe_match_index[p] = @ - 1]
            ELSE st

LeftSemiRowKeepsEveryAccepted(st, probe_index, i) ==
    LET p == probe_index[i]
    IN IF st.filter[i] = 1
       THEN [st EXCEPT !.probe_match_index[p] = 1]
       ELSE st

\* _remove_duplicate_index_for_left_semi_join, lines 589-595: row i.
LeftSemiRow(st, probe_index, i) ==
    LET p == probe_index[i]
    IN IF st.filter[i] = 1
       THEN IF st.probe_match_index[p] = 0
            THEN [st EXCEPT !.probe_match_index[p] = 1]
            ELSE [st EXCEPT !.filter[i] = 0]
       ELSE st

LeftAntiRowCountsEveryCandidate(st, probe_index, i) ==
    LET p == probe_index[i]
    IN IF st.probe_match_index[p] = 0
       THEN [st EXCEPT !.filter[i] = 1]
       ELSE IF st.probe_match_index[p] = 1
       THEN [st EXCEPT !.probe_match_index[p] = @ - 1,
                       !.filter[i] = IF @ = 0 THEN 1 ELSE 0]
       ELSE [st EXCEPT !.probe_match_index[p] = @ - 1, !.filter[i] = 0]

\* _remove_duplicate_index_for_left_anti_join, lines 602-611: row i.
LeftAntiRow(st, probe_index, i) ==
    LET p == probe_index[i]
    IN IF st.probe_match_index[p] = 0
       THEN [st EXCEPT !.filter[i] = 1]
       ELSE IF st.probe_match_index[p] = 1
       THEN [st EXCEPT !.probe_match_index[p] = @ - 1,
                       !.filter[i] = IF @ = 0 THEN 1 ELSE 0]
       ELSE IF st.filter[i] = 0
       THEN [st EXCEPT !.probe_match_index[p] = @ - 1]
       ELSE [st EXCEPT !.filter[i] = 0]

RightOuterRowMarksEveryCandidate(st, build_index, i) ==
    [st EXCEPT !.build_match_index[build_index[i]] = 1]

\* _remove_duplicate_index_for_right_outer_join, lines 618-620: row i.
RightOuterRow(st, build_index, i) ==
    IF st.filter[i] = 1
    THEN [st EXCEPT !.build_match_index[build_index[i]] = 1]
    ELSE st

RightSemiRowKeepsAccepted(st, build_index, i) ==
    IF st.filter[i] = 1
    THEN [st EXCEPT !.build_match_index[build_index[i]] = 1]
    ELSE st

\* _remove_duplicate_index_for_right_semi_join, lines 627-633: row i.
RightSemiRow(st, build_index, i) ==
    IF st.filter[i] = 1
    THEN IF st.build_match_index[build_index[i]] = 0
         THEN [st EXCEPT !.build_match_index[build_index[i]] = 1]
         ELSE [st EXCEPT !.filter[i] = 0]
    ELSE st

RightAntiRowDropsMatched(st, build_index, i) ==
    IF st.filter[i] = 1
    THEN [st EXCEPT !.build_match_index[build_index[i]] = 1,
                    !.filter[i] = 0]
    ELSE st

RightAntiRowMarksEveryCandidate(st, build_index, i) ==
    [st EXCEPT !.build_match_index[build_index[i]] = 1]

\* _remove_duplicate_index_for_right_anti_join, lines 640-642: row i.
RightAntiRow(st, build_index, i) ==
    IF st.filter[i] = 1
    THEN [st EXCEPT !.build_match_index[build_index[i]] = 1]
    ELSE st

FullOuterRowMarksKeptRow(st, probe_index, build_index, i) ==
    LET p == probe_index[i]
        b == build_index[i]
    IN IF st.probe_match_index[p] = 0
       THEN [st EXCEPT !.filter[i] = 1]
       ELSE IF st.probe_match_index[p] = 1
       THEN [st EXCEPT !.filter[i] = 1, !.build_match_index[b] = 1]
       ELSE IF st.filter[i] = 0
       THEN [st EXCEPT !.probe_match_index[p] = @ - 1]
       ELSE [st EXCEPT !.build_match_index[b] = 1]

\* _remove_duplicate_index_for_full_outer_join, lines 649-667: row i.
FullOuterRow(st, probe_index, build_index, i) ==
    LET p == probe_index[i]
        b == build_index[i]
    IN IF st.probe_match_index[p] = 0
       THEN [st EXCEPT !.filter[i] = 1]
       ELSE IF st.probe_match_index[p] = 1
       THEN IF st.filter[i] = 0
            THEN [st EXCEPT !.filter[i] = 1]
            ELSE [st EXCEPT !.build_match_index[b] = 1]
       ELSE IF st.filter[i] = 0
       THEN [st EXCEPT !.probe_match_index[p] = @ - 1]
       ELSE [st EXCEPT !.build_match_index[b] = 1]

\* remove_duplicate_index, lines 432-457: the join type's function on row i.
DedupRow(jt, st, probe_index, build_index, i) ==
    CASE jt = "LEFT_OUTER_JOIN" -> LeftOuterRow(st, probe_index, i)
      [] jt = "LEFT_SEMI_JOIN" -> LeftSemiRow(st, probe_index, i)
      [] jt \in {"LEFT_ANTI_JOIN", "NULL_AWARE_LEFT_ANTI_JOIN"} ->
             LeftAntiRow(st, probe_index, i)
      [] jt = "RIGHT_OUTER_JOIN" -> RightOuterRow(st, build_index, i)
      [] jt = "RIGHT_SEMI_JOIN" -> RightSemiRow(st, build_index, i)
      [] jt = "RIGHT_ANTI_JOIN" -> RightAntiRow(st, build_index, i)
      [] jt = "FULL_OUTER_JOIN" ->
             FullOuterRow(st, probe_index, build_index, i)
      [] OTHER -> st

\* The loop of every _remove_duplicate_index_for_* function: rows
\* i .. filter->size() in order.
RECURSIVE DedupRowsFrom(_, _, _, _, _)
DedupRowsFrom(jt, st, probe_index, build_index, i) ==
    IF i > Len(st.filter) THEN st
    ELSE DedupRowsFrom(jt, DedupRow(jt, st, probe_index, build_index, i),
                       probe_index, build_index, i + 1)

CountersOfTheBatch(filter) ==
    [filter |-> filter,
     probe_match_index |->
        [p \in DedupRows |->
            Cardinality({i \in rows_done + 1 .. rows_done + Len(filter) :
                            all_probe_index[i] = p /\ all_build_index[i] # 0})],
     build_match_index |-> build_match_index]

\* What a call works on: the batch's filter and the counters of
\* _probe_state, which no call resets.
CarriedCounters(filter) ==
    [filter |-> filter, probe_match_index |-> probe_match_index,
     build_match_index |-> build_match_index]

\* JoinHashTable::remove_duplicate_index on the next output batch, whose
\* rows are the Len(filter) rows after rows_done.
RemoveDuplicateIndex(filter) ==
    /\ rows_done + Len(filter) <= Len(all_probe_index)
    /\ LET probe_index == SubSeq(all_probe_index, rows_done + 1,
                                 rows_done + Len(filter))
           build_index == SubSeq(all_build_index, rows_done + 1,
                                 rows_done + Len(filter))
           st == CarriedCounters(filter)
           res == DedupRowsFrom(join_type, st, probe_index, build_index, 1)
       IN /\ probe_match_index' = res.probe_match_index
          /\ build_match_index' = res.build_match_index
          /\ filter_out' = filter_out \o res.filter
    /\ filter_in' = filter_in \o filter
    /\ rows_done' = rows_done + Len(filter)
    /\ dedup_batches' = dedup_batches + 1
    /\ UNCHANGED <<join_type, candidate_count, all_probe_index,
                   all_build_index, remain>>
    /\ UNCHANGED dedupOthers

\* The build rows low .. MaxCandidates whose mark is the given one: the
\* scan reads build_match_index from entry low on.
RECURSIVE RowsMarked(_, _, _)
RowsMarked(marks, mark, low) ==
    IF low > MaxCandidates THEN <<>>
    ELSE (IF marks[low] = mark THEN <<low>> ELSE <<>>)
             \o RowsMarked(marks, mark, low + 1)

\* The scan of build_match_index by JoinHashMap::probe_remain: the
\* unmatched build rows, found by a scan of every entry for the mark 0
\* (entry 0 included, which build() sets to 1), or the matched ones among
\* the real rows for RIGHT_SEMI.
RemainRows(jt, marks) ==
    IF jt = "RIGHT_SEMI_JOIN"
    THEN RowsMarked(marks, 1, 1)
    ELSE RowsMarked(marks, 0, 0)

\* JoinHashTable::probe_remain, after all probe batches are exhausted.
ProbeRemain ==
    /\ join_type \in MarksBuildRows
    /\ rows_done = Len(all_probe_index)
    /\ ~remain.done
    /\ remain' = [done |-> TRUE, rows |-> RemainRows(join_type, build_match_index)]
    /\ UNCHANGED <<join_type, candidate_count, all_probe_index,
                   all_build_index, probe_match_index, build_match_index,
                   rows_done, dedup_batches, filter_in, filter_out>>
    /\ UNCHANGED dedupOthers

\* The filters of an output batch: 1 to chunk_size rows, each 0 or 1.
Filters == SeqsUpTo({0, 1}, ChunkSize) \ {<<>>}

NextDedup ==
    \/ \E filter \in Filters : RemoveDuplicateIndex(filter)
    \/ ProbeRemain

(***************************************************************************)
(* SpecSelect: the choice of the hash map layout by JoinHashTable::build,  *)
(* and the dispatch of build, probe and probe_remain on the chosen layout. *)
(* A join key is its type, its is_null_safe_equal flag and whether its     *)
(* build column holds a NULL.                                              *)
(***************************************************************************)
PrimitiveTypes ==
    {"TYPE_BOOLEAN", "TYPE_TINYINT", "TYPE_SMALLINT", "TYPE_INT",
     "TYPE_BIGINT", "TYPE_LARGEINT", "TYPE_FLOAT", "TYPE_DOUBLE",
     "TYPE_VARCHAR", "TYPE_CHAR", "TYPE_DATE", "TYPE_DATETIME",
     "TYPE_DECIMALV2", "TYPE_DECIMAL32", "TYPE_DECIMAL64",
     "TYPE_DECIMAL128", "TYPE_HLL"}

\* The types tried in lists of several keys: sizes 1, 4 and 8, and one
\* without fixed size.
SeveralKeyTypes == {"TYPE_BOOLEAN", "TYPE_INT", "TYPE_BIGINT", "TYPE_VARCHAR"}

JoinKeys(types) ==
    [type : types, is_null_safe_equal : BOOLEAN, has_null : BOOLEAN]

RECURSIVE KeyLists(_, _)
KeyLists(types, n) ==
    IF n = 0 THEN {<<>>}
    ELSE {Append(l, k) : l \in KeyLists(types, n - 1), k \in JoinKeys(types)}

\* The lists of 2 .. n keys.
RECURSIVE SeveralKeys(_)
SeveralKeys(n) ==
    IF n < 2 THEN {} ELSE KeyLists(SeveralKeyTypes, n) \cup SeveralKeys(n - 1)

InitSelect ==
    /\ param_select_keys \in KeyLists(PrimitiveTypes, 1) \cup SeveralKeys(MaxKeys)
    /\ select_keys = param_select_keys
    /\ hash_map_type = "empty"
    /\ select_op = "create"
    /\ select_status = "OK"

KeepNullSafe(keys) == keys

\* _choose_join_hash_map, lines 464-468.
DropNullSafe(keys) ==
    [i \in DOMAIN keys |->
        IF ~keys[i].has_null
        THEN [keys[i] EXCEPT !.is_null_safe_equal = FALSE]
        ELSE keys[i]]

SingleKeyLayoutNoDefault(type) ==
    CASE type = "TYPE_BOOLEAN" -> "keyboolean"
      [] type = "TYPE_TINYINT" -> "key8"
      [] type = "TYPE_SMALLINT" -> "key16"
      [] type = "TYPE_INT" -> "key32"
      [] type = "TYPE_BIGINT" -> "key64"
      [] type = "TYPE_LARGEINT" -> "key128"
      [] type = "TYPE_FLOAT" -> "keyfloat"
      [] type = "TYPE_DOUBLE" -> "keydouble"
      [] type \in {"TYPE_VARCHAR", "TYPE_CHAR"} -> "keystring"
      [] type = "TYPE_DATE" -> "keydate"
      [] type = "TYPE_DATETIME" -> "keydatetime"
      [] type = "TYPE_DECIMALV2" -> "keydecimal"
      [] type = "TYPE_DECIMAL32" -> "keydecimal32"
      [] type = "TYPE_DECIMAL64" -> "keydecimal64"
      [] type = "TYPE_DECIMAL128" -> "keydecimal128"
      [] OTHER -> "empty"

\* _choose_join_hash_map, lines 471-508: the switch on a single key's type.
SingleKeyLayout(type) ==
    CASE type = "TYPE_BOOLEAN" -> "keyboolean"
      [] type = "TYPE_TINYINT" -> "key8"
      [] type = "TYPE_SMALLINT" -> "key16"
      [] type = "TYPE_INT" -> "key32"
      [] type = "TYPE_BIGINT" -> "key64"
      [] type = "TYPE_LARGEINT" -> "key128"
      [] type = "TYPE_FLOAT" -> "keyfloat"
      [] type = "TYPE_DOUBLE" -> "keydouble"
      [] type \in {"TYPE_VARCHAR", "TYPE_CHAR"} -> "keystring"
      [] type = "TYPE_DATE" -> "keydate"
      [] type = "TYPE_DATETIME" -> "keydatetime"
      [] type = "TYPE_DECIMALV2" -> "keydecimal"
      [] type = "TYPE_DECIMAL32" -> "keydecimal32"
      [] type = "TYPE_DECIMAL64" -> "keydecimal64"
      [] type = "TYPE_DECIMAL128" -> "keydecimal128"
      [] OTHER -> "slice"

\* _get_size_of_fixed_and_contiguous_type: sizeof the type's CppType, 0 for
\* the types the switch does not name.
GetSizeOfFixedAndContiguousType(type) ==
    CASE type \in {"TYPE_BOOLEAN", "TYPE_TINYINT"} -> 1
      [] type = "TYPE_SMALLINT" -> 2
      [] type \in {"TYPE_INT", "TYPE_FLOAT", "TYPE_DATE"} -> 4
      [] type \in {"TYPE_BIGINT", "TYPE_DOUBLE", "TYPE_DATETIME"} -> 8
      [] OTHER -> 0

FixedLayoutBelow(total_size_in_byte) ==
    IF total_size_in_byte < 4 THEN "fixed32"
    ELSE IF total_size_in_byte < 8 THEN "fixed64"
    ELSE IF total_size_in_byte < 16 THEN "fixed128"
    ELSE "slice"

\* _choose_join_hash_map, lines 524-534.
FixedLayout(total_size_in_byte) ==
    IF total_size_in_byte <= 4 THEN "fixed32"
    ELSE IF total_size_in_byte <= 8 THEN "fixed64"
    ELSE IF total_size_in_byte <= 16 THEN "fixed128"
    ELSE "slice"

\* _choose_join_hash_map, lines 510-534: the loop over the keys from key i
\* with the bytes counted so far, then the choice by the total.
RECURSIVE SeveralKeysLayout(_, _, _)
SeveralKeysLayout(keys, i, total_size_in_byte) ==
    IF i > Len(keys) THEN FixedLayout(total_size_in_byte)
    ELSE LET flag == IF keys[i].is_null_safe_equal THEN 1 ELSE 0
             s == GetSizeOfFixedAndContiguousType(keys[i].type)
         IN IF s > 0
            THEN SeveralKeysLayout(keys, i + 1, total_size_in_byte + flag + s)
            ELSE "slice"

\* _choose_join_hash_map on the keys with their flags already dropped.
ChooseJoinHashMap(keys) ==
    IF Len(keys) = 1 /\ ~keys[1].is_null_safe_equal
    THEN SingleKeyLayout(keys[1].type)
    ELSE SeveralKeysLayout(keys, 1, 0)

\* APPLY_FOR_JOIN_VARIANTS: the layouts the switches of build, probe and
\* probe_remain have a case for.
JoinVariants ==
    {"keyboolean", "key8", "key16", "key32", "key64", "key128", "keyfloat",
     "keydouble", "keystring", "keydate", "keydatetime", "keydecimal",
     "keydecimal32", "keydecimal64", "keydecimal128", "slice", "fixed32",
     "fixed64", "fixed128"}

\* The statuses the layout's own build can return: the serialized layout
\* fails when its allocation fails (construct_hash_table, line 51).
VariantBuildStatuses(type) ==
    IF type = "slice" THEN {"OK", "MemoryAllocFailed"} ELSE {"OK"}

\* The switch of build, probe and probe_remain on _hash_map_type, given
\* the statuses the layout's own operation can return.
SwitchStatuses(type, variant_statuses) ==
    IF type = "empty" THEN {"OK"}
    ELSE IF type \in JoinVariants THEN variant_statuses
    ELSE {"not supported"}

\* JoinHashTable::build: the choice of the layout, then the switch.
SelectBuild ==
    /\ select_op = "create"
    /\ LET keys == DropNullSafe(select_keys)
           type == ChooseJoinHashMap(keys)
       IN /\ select_keys' = keys
          /\ hash_map_type' = type
          /\ select_status' \in SwitchStatuses(type, VariantBuildStatuses(type))
    /\ select_op' = "build"
    /\ UNCHANGED param_select_keys
    /\ UNCHANGED selectOthers

\* JoinHashTable::probe after a successful build.
SelectProbe ==
    /\ select_op \in {"build", "probe"}
    /\ select_status = "OK"
    /\ select_status' \in SwitchStatuses(hash_map_type, {"OK"})
    /\ select_op' = "probe"
    /\ UNCHANGED <<param_select_keys, select_keys, hash_map_type>>
    /\ UNCHANGED selectOthers

\* JoinHashTable::probe_remain after a successful build.
SelectProbeRemain ==
    /\ select_op \in {"build", "probe"}
    /\ select_status = "OK"
    /\ select_status' \in SwitchStatuses(hash_map_type, {"OK"})
    /\ select_op' = "probe_remain"
    /\ UNCHANGED <<param_select_keys, select_keys, hash_map_type>>
    /\ UNCHANGED selectOthers

NextSelect == SelectBuild \/ SelectProbe \/ SelectProbeRemain

(***************************************************************************)
(* SpecRef: the references a build operator takes on its joiners.  Each    *)
(* operator has its own builder (create_builder(driver_sequence)) and the  *)
(* factory's read-only probers; prepare takes a reference on each, close   *)
(* releases one on each.  The calls are counted per operator.              *)
(***************************************************************************)
Builder == 0
Joiners == {Builder} \cup ProberIds

\* The operators the factory creates and the read-only probers it hands to
\* them: one operator and every prober for a broadcast join, one operator
\* per driver and no read-only prober otherwise.
RefOperators ==
    IF ref_mode = "BROADCAST" THEN {0} ELSE 0 .. (NumOperators - 1)
RefReadOnlyProbers == IF ref_mode = "BROADCAST" THEN ProberIds ELSE {}

InitRef ==
    /\ ref_mode \in {"BROADCAST", "PARTITIONED"}
    /\ prep_pc = [u \in 0 .. (NumOperators - 1) |-> "created"]
    /\ ref_calls = [u \in 0 .. (NumOperators - 1) |-> [j \in Joiners |-> 0]]
    /\ unref_calls = [u \in 0 .. (NumOperators - 1) |-> [j \in Joiners |-> 0]]

\* What Operator::prepare and HashJoiner::prepare can return.
PrepareStatuses == {"OK", "ERROR"}

\* One more call on the builder and on every read-only prober.
CallOnEach(calls) ==
    [j \in Joiners |->
        IF j = Builder \/ j \in RefReadOnlyProbers
        THEN calls[j] + 1 ELSE calls[j]]

\* prepare, lines 26-35: the error of the base operator's prepare returns
\* before line 29; the builder's prepare runs after every ref.
OperatorPrepare(u, base_status, builder_status) ==
    /\ u \in RefOperators
    /\ prep_pc[u] = "created"
    /\ IF base_status # "OK"
       THEN /\ prep_pc' = [prep_pc EXCEPT ![u] = "failed"]
            /\ UNCHANGED ref_calls
       ELSE /\ ref_calls' = [ref_calls EXCEPT ![u] = CallOnEach(@)]
            /\ prep_pc' = [prep_pc EXCEPT
                              ![u] = IF builder_status = "OK"
                                     THEN "prepared" ELSE "failed"]
    /\ UNCHANGED <<ref_mode, unref_calls>>
    /\ UNCHANGED refOthers

\* close, lines 36-43, called once on an operator whose prepare has
\* returned, with either status.
OperatorClose(u) ==
    /\ u \in RefOperators
    /\ prep_pc[u] \in {"prepared", "failed"}
    /\ unref_calls' = [unref_calls EXCEPT ![u] = CallOnEach(@)]
    /\ prep_pc' = [prep_pc EXCEPT ![u] = "closed"]
    /\ UNCHANGED <<ref_mode, ref_calls>>
    /\ UNCHANGED refOthers

NextRef ==
    \/ \E u \in 0 .. (NumOperators - 1),
          base_status \in PrepareStatuses,
          builder_status \in PrepareStatuses :
          OperatorPrepare(u, base_status, builder_status)
    \/ \E u \in 0 .. (NumOperators - 1) : OperatorClose(u)

(***************************************************************************)
(* SpecAppend: append_chunk on one output column of the build side and on  *)
(* the tuple (marker) columns.  A column is its nullability, its data and, *)
(* when nullable, its null flags; row 0 is the default row create()        *)
(* appends.                                                                *)
(***************************************************************************)
TupleIds == {1, 2}
\* The tuples row_desc holds: get_tuple_idx(id) != INVALID_IDX.
RowDescTuples == {1}
CellValues == {1, 2}
DefaultValue == 0

\* A flag column of n rows that all hold v: NullColumn::create(n, v),
\* BooleanColumn::create(n, v).
Filled(n, v) == [i \in 1 .. n |-> v]

\* create(), lines 308-314.
NewColumn(nullable) ==
    [nullable |-> nullable, data |-> <<DefaultValue>>,
     nulls |-> IF nullable THEN <<0>> ELSE <<>>]

InitAppend ==
    /\ ap_need_tuple_columns \in BOOLEAN
    /\ \E nullable \in BOOLEAN : ap_column = NewColumn(nullable)
    /\ ap_markers = [t \in TupleIds |-> <<>>]
    /\ ap_row_count = 0

\* The null flags of the rows of a source column.
NullsOf(col) == IF col.nullable THEN col.nulls ELSE Filled(Len(col.data), 0)

\* Column::append(src, 0, n): a nullable column takes the rows with their
\* null flags (flag 0 for the rows of a column that is not nullable).
AppendRows(dst, src) ==
    [nullable |-> dst.nullable,
     data |-> dst.data \o src.data,
     nulls |-> IF dst.nullable THEN dst.nulls \o NullsOf(src) ELSE <<>>]

UpgradeMarkingNull(col) ==
    [nullable |-> TRUE, data |-> col.data, nulls |-> Filled(Len(col.data), 1)]

\* append_chunk, line 400: NullableColumn::create(columns[i],
\* NullColumn::create(columns[i]->size(), 0)).
UpgradeToNullable(col) ==
    [nullable |-> TRUE, data |-> col.data, nulls |-> Filled(Len(col.data), 0)]

\* append_chunk, lines 396-404.
AppendBuildColumn(dst, src) ==
    IF dst.nullable THEN AppendRows(dst, src)
    ELSE IF src.nullable THEN AppendRows(UpgradeToNullable(dst), src)
    ELSE AppendRows(dst, src)

\* append_chunk, lines 407-425, for the tuples the chunk carries and
\* row_desc holds: an existing tuple column takes the rows of the chunk's
\* (lines 411-415); a new one starts with row_count + 1 ones (lines
\* 417-420).
AppendMarkers(markers, chunk, rc) ==
    [t \in TupleIds |->
        IF t \in chunk.tuples /\ t \in RowDescTuples
        THEN IF markers[t] # <<>>
             THEN markers[t] \o chunk.marker
             ELSE Filled(rc + 1, 1) \o chunk.marker
        ELSE markers[t]]

\* The chunks of the build side: the slot's column (not nullable, or
\* nullable with the default value under a NULL), the tuples the chunk
\* carries and their marker column.
OutputChunks ==
    UNION {{[num_rows |-> n,
             column |-> [nullable |-> nullable,
                         data |-> [i \in 1 .. n |->
                                     IF nullable /\ f[i] = 1
                                     THEN DefaultValue ELSE d[i]],
                         nulls |-> IF nullable THEN f ELSE <<>>],
             tuples |-> T,
             marker |-> Filled(n, m)] :
               nullable \in BOOLEAN,
               d \in [1 .. n -> CellValues], f \in [1 .. n -> {0, 1}],
               T \in SUBSET TupleIds, m \in {0, 1}} :
           n \in 1 .. ChunkSize}

\* append_chunk, lines 387-429.
AppendOutputChunk(chunk) ==
    /\ ap_row_count + chunk.num_rows <= MaxBuildRows
    /\ ap_column' = AppendBuildColumn(ap_column, chunk.column)
    /\ ap_markers' = IF ap_need_tuple_columns
                     THEN AppendMarkers(ap_markers, chunk, ap_row_count)
                     ELSE ap_markers
    /\ ap_row_count' = ap_row_count + chunk.num_rows
    /\ UNCHANGED ap_need_tuple_columns
    /\ UNCHANGED appendOthers

NextAppend == \E chunk \in OutputChunks : AppendOutputChunk(chunk)

(***************************************************************************)
(* The specifications.                                                     *)
(***************************************************************************)
\* The groups of variables at rest.
IdleLife == InitLife /\ distribution_mode = "BROADCAST"
IdleOwn == InitOwn /\ own_join_type = "INNER_JOIN"
IdleJoin == InitJoin /\ param_join_keys = [k \in KeyIds |-> FALSE]
IdleDedup ==
    /\ InitDedup
    /\ join_type = "LEFT_OUTER_JOIN"
    /\ candidate_count = [p \in DedupRows |-> 0]
IdleSelect ==
    /\ InitSelect
    /\ param_select_keys = <<[type |-> "TYPE_VARCHAR",
                              is_null_safe_equal |-> FALSE,
                              has_null |-> FALSE]>>

IdleRef == InitRef /\ ref_mode = "BROADCAST"
IdleAppend ==
    /\ InitAppend
    /\ ~ap_need_tuple_columns
    /\ ap_column = NewColumn(FALSE)
LifeInit ==
    /\ IdleOwn /\ IdleJoin /\ IdleDedup /\ IdleSelect
    /\ IdleRef /\ IdleAppend
    /\ InitLife

SpecLife == LifeInit /\ [][NextLife]_vars

\* Each driver runs on its own worker thread: a started set_finishing of
\* unit 0 runs to its end whatever the other drivers do.
SpecLifeFair == LifeInit /\ [][NextLife]_vars /\ WF_vars(FinishingStep(0))

SpecInput == LifeInit /\ [][NextInput]_vars

OwnInit ==
    /\ IdleLife /\ IdleJoin /\ IdleDedup /\ IdleSelect
    /\ IdleRef /\ IdleAppend
    /\ InitOwn

SpecOwn == OwnInit /\ [][NextOwn]_vars

JoinInit ==
    /\ IdleLife /\ IdleOwn /\ IdleDedup /\ IdleSelect
    /\ IdleRef /\ IdleAppend
    /\ InitJoin

SpecJoin == JoinInit /\ [][NextJoin]_vars

DedupInit ==
    /\ IdleLife /\ IdleOwn /\ IdleJoin /\ IdleSelect
    /\ IdleRef /\ IdleAppend
    /\ InitDedup

SpecDedup == DedupInit /\ [][NextDedup]_vars

SelectInit ==
    /\ IdleLife /\ IdleOwn /\ IdleJoin /\ IdleDedup
    /\ IdleRef /\ IdleAppend
    /\ InitSelect

SpecSelect == SelectInit /\ [][NextSelect]_vars

RefInit ==
    /\ IdleLife /\ IdleOwn /\ IdleJoin /\ IdleDedup
    /\ IdleSelect /\ IdleAppend
    /\ InitRef

SpecRef == RefInit /\ [][NextRef]_vars

AppendInit ==
    /\ IdleLife /\ IdleOwn /\ IdleJoin /\ IdleDedup
    /\ IdleSelect /\ IdleRef
    /\ InitAppend

SpecAppend == AppendInit /\ [][NextAppend]_vars

(***************************************************************************)
(* Claims on SpecLife.                                                     *)
(***************************************************************************)
BuildReturned(u) == op_pc[u] # "running"

ProbeUnitsProbing(u) ==
    /\ builder_phase[u] = "PROBE"
    /\ \A p \in ReadOnlyProbers : prober_phase[p] = "PROBE" /\ prober_ht[p] = u

\* The ordering alone: a reference is granted and a probe phase entered
\* only after the unit's build_ht call has returned (with either status).
C1_AfterBuildReturned ==
    /\ \A u \in ActiveUnits : builder_phase[u] = "PROBE" => BuildReturned(u)
    /\ \A p \in ReadOnlyProbers :
          /\ prober_ht[p] # NoTable => BuildReturned(prober_ht[p])
          /\ prober_phase[p] = "PROBE" => prober_ht[p] # NoTable

\* C1: reference_hash_table and every enter_probe_phase signal of a build
\* unit come only after that unit's build() has returned, and no probe unit
\* (the builder or a read-only prober) is in probe phase while the table it
\* references is not finalized.
C1_ProbeOnlyAfterFinalized ==
    /\ C1_AfterBuildReturned
    /\ \A u \in ActiveUnits :
          builder_phase[u] = "PROBE" => ht_state[u] = "FINALIZED"
    /\ \A p \in ReadOnlyProbers :
          prober_phase[p] = "PROBE" => ht_state[prober_ht[p]] = "FINALIZED"

\* C2: a failed build() ends the finishing step there: the unit submits no
\* runtime filter, no prober is handed the table, and neither the builder
\* nor a prober of that table enters the probe phase.
C2_BuildFailureShortCircuits ==
    \A u \in ActiveUnits :
        ht_state[u] = "FAILED" =>
            /\ rf_status[u] = "NONE"
            /\ u \notin merger_arrived
            /\ builder_phase[u] = "BUILD"
            /\ \A p \in ReadOnlyProbers :
                  prober_ht[p] # u /\ prober_phase[p] = "BUILD"

PastPublish(u) == op_pc[u] \in {"published", "referenced", "finished"}

\* C3: a call of set_finishing publishes the merged filters if and only if
\* its own add_partial_filters returned success with the value 'complete'.
C3_PublishIffComplete ==
    \A u \in ActiveUnits :
        /\ PastPublish(u) => (did_publish[u] <=> rf_status[u] = "COMPLETE")
        /\ ~PastPublish(u) => ~did_publish[u]

C3_Witness ==
    \E u, v \in ActiveUnits :
        /\ PastPublish(u) /\ rf_status[u] = "COMPLETE" /\ did_publish[u]
        /\ PastPublish(v) /\ rf_status[v] = "INCOMPLETE" /\ ~did_publish[v]

\* C4: whatever the interleaving of the units' submissions, completion is
\* reported to at most one submission and to exactly one once every unit's
\* contribution has been accepted; the merged filter is published exactly
\* once, by that submission's call, and a later duplicate submission does
\* not publish again.
C4_PublishedExactlyOnce ==
    /\ complete_count <= 1
    /\ publish_count <= complete_count
    /\ merger_arrived = ActiveUnits => complete_count = 1
    /\ (/\ complete_count = 1
        /\ \A u \in ActiveUnits :
              ~(op_pc[u] = "submitted" /\ rf_status[u] = "COMPLETE"))
       => publish_count = 1

\* Every unit has finished, the one that completed the set has submitted
\* again since, and there is still one publication.
C4_Witness ==
    /\ distribution_mode = "PARTITIONED"
    /\ dup_calls >= 1
    /\ \A u \in ActiveUnits :
          op_pc[u] = "finished" /\ rf_status[u] = "INCOMPLETE"
    /\ complete_count = 1
    /\ publish_count = 1

\* C5: once build() has returned, unit 0's probe units enter the probe
\* phase, and a submission that did not complete the set (or failed) is
\* followed, in the same call, by the reference and the probe signals; no
\* step of another unit is needed for either.
C5_ProbeWithoutWaiting ==
    /\ (0 \in ActiveUnits /\ op_pc[0] = "built") ~> ProbeUnitsProbing(0)
    /\ (0 \in ActiveUnits /\ op_pc[0] = "submitted"
            /\ rf_status[0] \in {"INCOMPLETE", "ERROR"})
         ~> (op_pc[0] = "finished" /\ ProbeUnitsProbing(0))

\* Unit 0 probes after an incomplete or failed submission while unit 1 has
\* not started its finishing step and nothing has been published.
C5_Witness ==
    /\ distribution_mode = "PARTITIONED"
    /\ op_pc[0] = "finished"
    /\ rf_status[0] \in {"INCOMPLETE", "ERROR"}
    /\ ProbeUnitsProbing(0)
    /\ op_pc[1] = "running"
    /\ publish_count = 0

\* C25: each table is finalized once and only after its input: build()
\* runs at most once on a table, has run once when set_finishing has
\* called build_ht, and no chunk is appended to a table after the
\* set_finishing of its build unit.
C25_BuiltOnceAfterInput ==
    \A u \in Units :
        /\ ht_log[u].builds <= 1
        /\ BuildReturned(u) <=> ht_log[u].builds = 1
        /\ ~ht_log[u].appended_after_finishing

\* Unit 1 of a partitioned join was given chunks, has finished, and
\* set_finishing was called on a finished operator once more.
C25_Witness ==
    /\ distribution_mode = "PARTITIONED"
    /\ ht_log[1].appended
    /\ ht_log[1].builds = 1
    /\ op_pc[1] = "finished"
    /\ dup_calls > 0
    /\ ~ht_log[0].appended
    /\ op_pc[0] = "finished"

OpenHandles == {h \in HandleIds : IsOpen(h)}

Seen(h) ==
    IF ht_probe_state[h] = <<>> THEN <<>>
    ELSE <<probe_states[ht_probe_state[h][1]]>>

\* C21: a clone shares the table state and owns a scratch state of its
\* own: the open handles hold the one table state, no two of them hold
\* the same scratch state, and what a probe through one handle writes to
\* its cursor or its build_match_index changes what no other handle sees.
C21_CloneOwnsScratch ==
    /\ [](\A g, h \in OpenHandles :
             /\ ht_table_items[g] = ht_table_items[h]
             /\ g # h => ht_probe_state[g] # ht_probe_state[h])
    /\ [][\A h \in HandleIds :
             OwnProbe(h) =>
                 \A g \in HandleIds \ {h} : Seen(g)' = Seen(g)]_vars

\* The builder's handle and two clones are open, and each has probed to a
\* scratch state unlike the others'.
C21_Witness ==
    /\ OpenHandles = {0, 1, 2}
    /\ items.built
    /\ Seen(0)[1].build_match_index # Seen(1)[1].build_match_index
    /\ Seen(1)[1].next # Seen(2)[1].next
    /\ Seen(0) # Seen(2)

\* C23: the promotion flags create sets depend on the join type alone:
\* the RIGHT_* types set left_to_nullable only, the LEFT_* types and
\* NULL_AWARE_LEFT_ANTI set right_to_nullable only, FULL_OUTER sets both
\* and INNER sets neither.
C23_PromotionByJoinType ==
    items.state = "alive" =>
        /\ items.join_type = own_join_type
        /\ items.left_to_nullable <=>
               items.join_type \in {"RIGHT_OUTER_JOIN", "RIGHT_SEMI_JOIN",
                                    "RIGHT_ANTI_JOIN", "FULL_OUTER_JOIN"}
        /\ items.right_to_nullable <=>
               items.join_type \in {"LEFT_OUTER_JOIN", "LEFT_SEMI_JOIN",
                                    "LEFT_ANTI_JOIN",
                                    "NULL_AWARE_LEFT_ANTI_JOIN",
                                    "FULL_OUTER_JOIN"}

\* A table created for a RIGHT_SEMI join.
C23_Witness ==
    /\ items.state = "alive"
    /\ items.join_type = "RIGHT_SEMI_JOIN"
    /\ items.left_to_nullable
    /\ ~items.right_to_nullable

TracksBuildMatches(jt) ==
    jt \in {"RIGHT_OUTER_JOIN", "FULL_OUTER_JOIN", "RIGHT_SEMI_JOIN",
            "RIGHT_ANTI_JOIN"}

\* C29 as stated: for RIGHT_OUTER, FULL_OUTER, RIGHT_SEMI and RIGHT_ANTI,
\* build leaves a build_match_index with one entry per row index, all
\* zero; for the other join types it leaves none.
C29_BuildMatchIndexZeroed ==
    [][OwnBuild =>
          Seen(0)'[1].build_match_index =
             IF TracksBuildMatches(items.join_type)
             THEN [i \in 1 .. items.row_count + 1 |-> 0]
             ELSE <<>>]_vars

\* C29, amended: for these four join types build leaves a
\* build_match_index with one entry per row index 0 .. row_count, zero
\* for the rows 1 .. row_count and 1 for the reserved row 0; for the
\* other join types it leaves none.
C29_BuildMatchIndexPerRow ==
    [][OwnBuild =>
          LET index == Seen(0)'[1].build_match_index
          IN IF TracksBuildMatches(items.join_type)
             THEN /\ Len(index) = items.row_count + 1
                  /\ index[1] = 1
                  /\ \A r \in 1 .. items.row_count : index[r + 1] = 0
             ELSE index = <<>>]_vars

\* A built RIGHT_ANTI table of MaxOwnRows rows that no probe has marked.
C29_Witness ==
    /\ items.built
    /\ IsOpen(0)
    /\ items.join_type = "RIGHT_ANTI_JOIN"
    /\ items.row_count = MaxOwnRows
    /\ Len(Seen(0)[1].build_match_index) = MaxOwnRows + 1
    /\ \A r \in 1 .. MaxOwnRows : Seen(0)[1].build_match_index[r + 1] = 0

(***************************************************************************)
(* Claims on SpecJoin.                                                     *)
(***************************************************************************)
\* C7 as stated: once batches have been appended, the row count is the sum
\* of the batches' row counts and every build column has that same length.
C7_ColumnLengthIsRowCount ==
    (jt_pc = "append" /\ sum_appended > 0) =>
        /\ row_count = sum_appended
        /\ \A k \in KeyIds : Len(build_chunk[k]) = row_count

\* C7 amended: the row count is the sum of the batches' row counts, and
\* every build column holds one row more, the default row that create put
\* at index 0.
C7_ColumnLengthIsRowCountPlusOne ==
    jt_pc = "append" =>
        /\ row_count = sum_appended
        /\ \A k \in KeyIds : Len(build_chunk[k]) = row_count + 1

\* Three rows were appended, in at least two batches.
C7_Witness ==
    /\ jt_pc = "append"
    /\ sum_appended = 3
    /\ row_count = 3
    /\ \A k \in KeyIds : Len(build_chunk[k]) = 4

\* SQL equality of two rows' keys under the declared null-safe flags.
KeyEqual(p, b, k) ==
    IF IsNull(p[k]) \/ IsNull(b[k])
    THEN param_join_keys[k] /\ IsNull(p[k]) /\ IsNull(b[k])
    ELSE p[k] = b[k]

KeysEqual(p, b) == \A k \in KeyIds : KeyEqual(p, b, k)

PairCount(i, r) ==
    Cardinality({j \in DOMAIN out_pairs : out_pairs[j] = <<i, r>>})

\* C8: the candidate pairs are pairs of a probe row and a real build row
\* with equal keys, none is output twice, and when the batch is exhausted
\* every pair with equal keys has been output, whatever the buckets and
\* the output batches were.
C8_CandidatesAreEqualKeyPairs ==
    jt_pc \in {"probing", "probed"} =>
        /\ \A j \in DOMAIN out_pairs :
              /\ out_pairs[j][1] \in DOMAIN probe_rows
              /\ out_pairs[j][2] \in 1 .. row_count
        /\ \A i \in DOMAIN probe_rows : \A r \in 1 .. row_count :
              /\ PairCount(i, r) <= 1
              /\ PairCount(i, r) = 1 => KeysEqual(probe_rows[i], BuildRow(r))
              /\ (jt_pc = "probed" /\ KeysEqual(probe_rows[i], BuildRow(r)))
                    => PairCount(i, r) = 1

\* Build keys {1,2,2} and probe keys {2,3}: keys 1 and 2 share a bucket,
\* and the two output rows came in more than one output batch.
C8_Witness ==
    /\ jt_pc = "probed"
    /\ build_chunk = [k \in KeyIds |-> IF k = 1 THEN <<0, 1, 2, 2>>
                                                ELSE <<0, 1, 1, 1>>]
    /\ probe_rows = <<<<2, 1>>, <<3, 1>>>>
    /\ build_slice[2] # build_slice[3]
    /\ CalcBucketNum(build_slice[2], bucket_size)
          = CalcBucketNum(build_slice[3], bucket_size)
    /\ Len(out_pairs) = 2
    /\ out_batches > 1

PairedBuildRows(i) ==
    {r \in 1 .. row_count : \E j \in DOMAIN out_pairs : out_pairs[j] = <<i, r>>}

\* C9: no candidate pair has a NULL, on either side, in a key that is not
\* null-safe; and a probe row with NULL in a null-safe key is paired with
\* exactly the build rows that have NULL in that key and equal other keys.
C9_NullKeys ==
    jt_pc \in {"probing", "probed"} =>
        /\ \A j \in DOMAIN out_pairs : \A k \in KeyIds :
              ~param_join_keys[k] =>
                  /\ ~IsNull(probe_rows[out_pairs[j][1]][k])
                  /\ ~IsNull(BuildRow(out_pairs[j][2])[k])
        /\ jt_pc = "probed" =>
              \A i \in DOMAIN probe_rows : \A k \in KeyIds :
                  (param_join_keys[k] /\ IsNull(probe_rows[i][k])) =>
                      PairedBuildRows(i) =
                          {r \in 1 .. row_count :
                              /\ IsNull(BuildRow(r)[k])
                              /\ \A o \in KeyIds \ {k} :
                                    KeyEqual(probe_rows[i], BuildRow(r), o)}

\* Key 1 is null-safe and key 2 is not; a NULL probe key 1 was paired with
\* a NULL build key 1, and both sides have a row with NULL in key 2.
C9_Witness ==
    /\ jt_pc = "probed"
    /\ param_join_keys[1] /\ ~param_join_keys[2]
    /\ \E j \in DOMAIN out_pairs :
          /\ IsNull(probe_rows[out_pairs[j][1]][1])
          /\ IsNull(BuildRow(out_pairs[j][2])[1])
    /\ \E i \in DOMAIN probe_rows : IsNull(probe_rows[i][2])
    /\ \E r \in 1 .. row_count : IsNull(BuildRow(r)[2])

RECURSIVE ChainFrom(_, _)
ChainFrom(r, fuel) ==
    IF r = 0 \/ fuel = 0 THEN <<>>
    ELSE <<r>> \o ChainFrom(next[r + 1], fuel - 1)

Buckets == 0 .. bucket_size - 1

Chain(b) == ChainFrom(first[b + 1], row_count + 1)

ChainPlaces(r) ==
    {<<b, j>> \in Buckets \X (1 .. row_count + 1) :
        j <= Len(Chain(b)) /\ Chain(b)[j] = r}

\* A build row without NULL in a key that is not declared null-safe.
Indexed(r) ==
    \A k \in KeyIds : IsNull(BuildRow(r)[k]) => param_join_keys[k]

\* The table as build has left it; the probes that follow do not write
\* to it.
Built == jt_pc = "built"

\* C26: after the build every row of 1 .. row_count without NULL in a key
\* that is not null-safe has a serialized key and is in exactly one chain,
\* once, the chain of its key's bucket; a row with such a NULL, and row 0,
\* is in no chain, has next = 0 and no serialized key.
C26_ChainMembership ==
    Built =>
        \A r \in 0 .. row_count :
            IF r > 0 /\ Indexed(r)
            THEN /\ build_slice[r + 1] # <<>>
                 /\ Cardinality(ChainPlaces(r)) = 1
                 /\ \A pl \in ChainPlaces(r) :
                       pl[1] = CalcBucketNum(build_slice[r + 1], bucket_size)
            ELSE /\ ChainPlaces(r) = {}
                 /\ next[r + 1] = 0
                 /\ build_slice[r + 1] = <<>>

\* Three rows under two ordinary keys whose columns both hold a NULL: the
\* first row has a NULL in the second key only, the second row in the
\* first key only, and the third row is the only one in a chain.
C26_Witness ==
    /\ Built
    /\ row_count = 3
    /\ param_join_keys = [k \in KeyIds |-> FALSE]
    /\ ~IsNull(BuildRow(1)[1]) /\ IsNull(BuildRow(1)[2])
    /\ IsNull(BuildRow(2)[1]) /\ ~IsNull(BuildRow(2)[2])
    /\ \E b \in Buckets : Chain(b) = <<3>>

\* The indexed rows of bucket b.
RowsOfBucket(b) ==
    {r \in 1 .. row_count :
        Indexed(r) /\ CalcBucketNum(build_slice[r + 1], bucket_size) = b}

Maximum(S) == IF S = {} THEN 0 ELSE CHOOSE x \in S : \A y \in S : y <= x

\* C27: after the build the chains are in reverse insertion order and have
\* no cycle: first[b] is the largest row of bucket b, next[r] is the
\* largest row of r's bucket below r (0 when there is none), so next[r] <
\* r for every row r of 1 .. row_count, and every chain reaches 0 within
\* row_count rows; also when the rows were linked in several passes.
C27_ChainsReversedAcyclic ==
    Built =>
        /\ \A b \in Buckets :
              /\ first[b + 1] = Maximum(RowsOfBucket(b))
              /\ Len(Chain(b)) <= row_count
              /\ \A j \in 1 .. Len(Chain(b)) - 1 :
                    Chain(b)[j + 1] < Chain(b)[j]
              /\ \A r \in RowsOfBucket(b) :
                    next[r + 1] =
                        Maximum({o \in RowsOfBucket(b) : o < r})
        /\ \A r \in 1 .. row_count : next[r + 1] < r

\* Three rows of one bucket, linked in two passes: the chain is 3, 2, 1.
C27_Witness ==
    /\ Built
    /\ row_count = 3
    /\ row_count > ChunkSize
    /\ \E b \in Buckets : Chain(b) = <<3, 2, 1>>

\* C28: lookup_init gives every probe row of the batch its cursor: the
\* head of the chain of its key's bucket when the row has no NULL in a key
\* that the table compares as not null-safe, 0 when it has one; no cursor
\* keeps what an earlier batch left.
C28_LookupInitCursors ==
    (jt_pc = "probing" /\ out_batches = 0) =>
        /\ DOMAIN probe_next = DOMAIN probe_rows
        /\ \A i \in DOMAIN probe_rows :
              probe_next[i] =
                 IF \E k \in KeyIds :
                       ~join_keys[k] /\ IsNull(probe_rows[i][k])
                 THEN 0
                 ELSE first[CalcBucketNum(probe_slice[i], bucket_size) + 1]

\* A batch of two rows on a table of three: the first row has a NULL in an
\* ordinary key and cursor 0, the second starts at a build row.
C28_Witness ==
    /\ jt_pc = "probing"
    /\ out_batches = 0
    /\ row_count = 3
    /\ Len(probe_rows) = 2
    /\ ~join_keys[2] /\ IsNull(probe_rows[1][2])
    /\ probe_next[1] = 0
    /\ probe_next[2] > 0

\* C30: when the arena has no memory for the serialized keys, build
\* returns the allocation failure with no row linked into a chain (every
\* first and next entry is 0 and there is no key view), and the build is
\* not run again on the table.
C30_AllocationFailure ==
    /\ [](jt_pc = "failed" =>
             /\ \A b \in DOMAIN first : first[b] = 0
             /\ \A r \in DOMAIN next : next[r] = 0
             /\ \A r \in DOMAIN build_slice : build_slice[r] = <<>>
             /\ Len(first) = bucket_size)
    /\ [][jt_pc = "failed" => UNCHANGED joinVars]_vars

\* The build of a table of MaxBuildRows rows failed.
C30_Witness ==
    /\ jt_pc = "failed"
    /\ row_count = MaxBuildRows
    /\ bucket_size > 0
    /\ \A b \in DOMAIN first : first[b] = 0

\* C24: append_chunk leaves the hash index as it was: bucket_size, first,
\* next, the key views and the flags the layout was chosen by are the
\* same after the call as before it, for every batch.
C24_AppendLeavesIndex ==
    [][row_count' # row_count =>
          UNCHANGED <<bucket_size, first, next, build_slice, join_keys>>]_vars

\* Several batches have been appended, the last one to a table that
\* already held rows, and the index is still as create left it.
C24_Witness ==
    /\ jt_pc = "append"
    /\ row_count = MaxBuildRows
    /\ sum_appended = MaxBuildRows
    /\ bucket_size = 0
    /\ first = <<>>
    /\ next = <<>>
    /\ build_slice = <<>>

RowsOf(p) == {i \in DOMAIN all_probe_index : all_probe_index[i] = p}

SurvivingRows(p) == {i \in RowsOf(p) : filter_out[i] = 1}

\* The candidates of probe row p that the residual predicate accepted.
AcceptedCandidates(p) ==
    IF candidate_count[p] = 0 THEN {}
    ELSE {i \in RowsOf(p) : filter_in[i] = 1}

DedupDone == rows_done = Len(all_probe_index)

\* C10: under LEFT_OUTER, when all rows of the probe batch have been
\* through remove_duplicate_index, every probe row has a surviving row; a
\* probe row with an accepted candidate keeps exactly its accepted
\* candidates; a probe row without accepted candidate keeps exactly one
\* row.
C10_LeftOuterSurvivors ==
    (join_type = "LEFT_OUTER_JOIN" /\ DedupDone) =>
        \A p \in DedupRows :
            /\ SurvivingRows(p) # {}
            /\ AcceptedCandidates(p) # {}
                  => SurvivingRows(p) = AcceptedCandidates(p)
            /\ AcceptedCandidates(p) = {}
                  => Cardinality(SurvivingRows(p)) = 1

\* Probe row 1 had two candidates, handled in two output batches, of which
\* the first was accepted and the second dropped; probe row 2 had none.
C10_Witness ==
    /\ join_type = "LEFT_OUTER_JOIN"
    /\ DedupDone
    /\ candidate_count = <<2, 0>>
    /\ dedup_batches = 2
    /\ filter_in = <<1, 0, 0>>
    /\ filter_out = <<1, 0, 1>>

Minimum(S) == CHOOSE x \in S : \A y \in S : x <= y

\* C11: under LEFT_SEMI, when all rows of the probe batch have been
\* through remove_duplicate_index, a probe row with an accepted candidate
\* has one surviving row, its first accepted candidate, and a probe row
\* without accepted candidate has none.
C11_LeftSemiSurvivors ==
    (join_type = "LEFT_SEMI_JOIN" /\ DedupDone) =>
        \A p \in DedupRows :
            /\ AcceptedCandidates(p) # {}
                  => SurvivingRows(p) = {Minimum(AcceptedCandidates(p))}
            /\ AcceptedCandidates(p) = {} => SurvivingRows(p) = {}

\* Probe row 1 had two candidates, both accepted, in two output batches;
\* probe row 2 had one candidate, which was dropped.
C11_Witness ==
    /\ join_type = "LEFT_SEMI_JOIN"
    /\ DedupDone
    /\ candidate_count = <<2, 1>>
    /\ dedup_batches = 2
    /\ filter_in = <<1, 1, 0>>
    /\ filter_out = <<1, 0, 0>>

\* C12: under LEFT_ANTI and NULL_AWARE_LEFT_ANTI, when all rows of the
\* probe batch have been through remove_duplicate_index, a probe row with
\* an accepted candidate has no surviving row, and a probe row without
\* accepted candidate has exactly one.
C12_LeftAntiSurvivors ==
    (join_type \in {"LEFT_ANTI_JOIN", "NULL_AWARE_LEFT_ANTI_JOIN"}
         /\ DedupDone) =>
        \A p \in DedupRows :
            /\ AcceptedCandidates(p) # {} => SurvivingRows(p) = {}
            /\ AcceptedCandidates(p) = {}
                  => Cardinality(SurvivingRows(p)) = 1

\* Probe row 1 had two candidates of which the first was accepted, over
\* two output batches; probe row 2 had two candidates, both dropped.
C12_Witness ==
    /\ join_type = "NULL_AWARE_LEFT_ANTI_JOIN"
    /\ DedupDone
    /\ candidate_count = <<2, 2>>
    /\ dedup_batches = 2
    /\ filter_in = <<1, 0, 0, 0>>
    /\ filter_out = <<0, 0, 0, 1>>

\* The rows handled so far that are candidates the residual predicate
\* accepted.
AcceptedRows ==
    {i \in 1 .. rows_done : filter_in[i] = 1 /\ all_build_index[i] # 0}

AcceptedBuildRows == {all_build_index[i] : i \in AcceptedRows}

RemainCount(b) ==
    Cardinality({j \in DOMAIN remain.rows : remain.rows[j] = b})

\* C13: under RIGHT_OUTER the build rows marked in build_match_index are
\* exactly the build rows of the accepted candidates, so that at the end a
\* build row is unmarked iff it had no accepted match, and probe_remain
\* outputs every unmarked build row once and no marked one.
C13_RightOuterMarks ==
    join_type = "RIGHT_OUTER_JOIN" =>
        /\ \A b \in DedupBuildRows :
              build_match_index[b] = 1 <=> b \in AcceptedBuildRows
        /\ remain.done =>
              \A b \in DedupBuildRows :
                  RemainCount(b) = IF b \in AcceptedBuildRows THEN 0 ELSE 1

\* Build row 1 had an accepted candidate, build row 2 two dropped ones,
\* over two output batches, and probe_remain output build row 2.
C13_Witness ==
    /\ join_type = "RIGHT_OUTER_JOIN"
    /\ remain.done
    /\ all_build_index = <<2, 1, 2>>
    /\ dedup_batches = 2
    /\ filter_in = <<0, 1, 0>>
    /\ remain.rows = <<2>>

RowsOfBuild(b) == {i \in 1 .. rows_done : all_build_index[i] = b}

SurvivingRowsOfBuild(b) == {i \in RowsOfBuild(b) : filter_out[i] = 1}

AcceptedRowsOfBuild(b) == {i \in RowsOfBuild(b) : filter_in[i] = 1}

\* The part of C14 on remove_duplicate_index alone: under RIGHT_SEMI a
\* build row with an accepted candidate has one surviving row, its first
\* accepted candidate, and a build row without has none.
C14_FirstAcceptedSurvives ==
    join_type = "RIGHT_SEMI_JOIN" =>
        \A b \in DedupBuildRows :
            /\ AcceptedRowsOfBuild(b) # {}
                  => SurvivingRowsOfBuild(b) = {Minimum(AcceptedRowsOfBuild(b))}
            /\ AcceptedRowsOfBuild(b) = {} => SurvivingRowsOfBuild(b) = {}

UnmarkedAreUnmatched ==
    \A b \in DedupBuildRows :
        build_match_index[b] = 0 <=> b \notin AcceptedBuildRows

\* C15 as stated: under RIGHT_ANTI no row of a build row that has an
\* accepted candidate survives remove_duplicate_index, and the build rows
\* left unmarked are exactly those without accepted match.
C15_RightAntiNoSurvivor ==
    join_type = "RIGHT_ANTI_JOIN" =>
        /\ \A b \in AcceptedBuildRows : SurvivingRowsOfBuild(b) = {}
        /\ UnmarkedAreUnmatched

\* C15 amended: under RIGHT_ANTI remove_duplicate_index leaves the filter
\* as the residual predicate gave it, so the accepted candidate rows are
\* still flagged as kept, and it marks exactly the build rows of accepted
\* candidates: the build rows left unmarked are exactly those without
\* accepted match.
C15_RightAntiMarksOnly ==
    join_type = "RIGHT_ANTI_JOIN" =>
        /\ filter_out = filter_in
        /\ UnmarkedAreUnmatched

\* Build row 2 had one accepted and one dropped candidate, build row 1 a
\* dropped one, over two output batches.
C15_Witness ==
    /\ join_type = "RIGHT_ANTI_JOIN"
    /\ DedupDone
    /\ all_build_index = <<2, 1, 2>>
    /\ dedup_batches = 2
    /\ filter_in = <<1, 0, 0>>
    /\ build_match_index[2] = 1
    /\ build_match_index[1] = 0

\* C16: under FULL_OUTER every probe row has a surviving row, its accepted
\* candidates if it has any and otherwise exactly one row; the build rows
\* marked are exactly the build rows of accepted candidates, so a row kept
\* only to null-extend its probe row marks nothing; and probe_remain
\* outputs once the build rows without accepted candidate and no other.
C16_FullOuterBothSides ==
    join_type = "FULL_OUTER_JOIN" =>
        /\ DedupDone =>
              \A p \in DedupRows :
                  /\ SurvivingRows(p) # {}
                  /\ AcceptedCandidates(p) # {}
                        => SurvivingRows(p) = AcceptedCandidates(p)
                  /\ AcceptedCandidates(p) = {}
                        => Cardinality(SurvivingRows(p)) = 1
        /\ \A b \in DedupBuildRows :
              build_match_index[b] = 1 <=> b \in AcceptedBuildRows
        /\ remain.done =>
              \A b \in DedupBuildRows :
                  RemainCount(b) = IF b \in AcceptedBuildRows THEN 0 ELSE 1

\* Probe row 1's only candidate, build row 1, was dropped and its row kept
\* to null-extend the probe row; probe row 2's candidate, build row 2, was
\* accepted; probe_remain output build row 1.
C16_Witness ==
    /\ join_type = "FULL_OUTER_JOIN"
    /\ remain.done
    /\ all_build_index = <<1, 2>>
    /\ filter_in = <<0, 1>>
    /\ filter_out = <<1, 1>>
    /\ build_match_index[1] = 0
    /\ remain.rows = <<1>>

(***************************************************************************)
(* Claims on SpecSelect.                                                   *)
(***************************************************************************)
Chosen == select_op # "create"

\* Several keys, or a key that is null-safe when the layout is chosen.
SeveralOrNullSafe ==
    \/ Len(select_keys) > 1
    \/ \E i \in DOMAIN select_keys : select_keys[i].is_null_safe_equal

AllFixedWidth ==
    \A i \in DOMAIN select_keys :
        GetSizeOfFixedAndContiguousType(select_keys[i].type) > 0

WidthSum ==
    SumSeq([i \in DOMAIN select_keys |->
               GetSizeOfFixedAndContiguousType(select_keys[i].type)])

NullSafeCount ==
    Cardinality({i \in DOMAIN select_keys : select_keys[i].is_null_safe_equal})

\* The smallest packed layout of 4, 8 or 16 bytes that holds n bytes, the
\* opaque-bytes layout above 16.
SmallestPacked(n) ==
    CASE n <= 4 -> "fixed32"
      [] n > 4 /\ n <= 8 -> "fixed64"
      [] n > 8 /\ n <= 16 -> "fixed128"
      [] OTHER -> "slice"

\* C17 as stated: with several keys or a null-safe key, fixed-width keys
\* get the smallest packed layout that holds the sum of their widths
\* (opaque bytes above 16), and a key without fixed width gives the
\* opaque-bytes layout.
C17_PackedBySumOfWidths ==
    (Chosen /\ SeveralOrNullSafe) =>
        hash_map_type = IF AllFixedWidth THEN SmallestPacked(WidthSum)
                        ELSE "slice"

\* C17 amended: the size that decides is the sum of the keys' widths plus
\* one byte for every null-safe key.
C17_PackedBySumAndNullBytes ==
    (Chosen /\ SeveralOrNullSafe) =>
        hash_map_type = IF AllFixedWidth
                        THEN SmallestPacked(WidthSum + NullSafeCount)
                        ELSE "slice"

\* Two INT keys, one of them null-safe: 9 bytes, the 16-byte layout.
C17_Witness ==
    /\ Chosen
    /\ Len(select_keys) = 2
    /\ \A i \in DOMAIN select_keys : select_keys[i].type = "TYPE_INT"
    /\ select_keys[1].is_null_safe_equal
    /\ ~select_keys[2].is_null_safe_equal
    /\ hash_map_type = "fixed128"

\* The flags after the layout is chosen: a key stays null-safe only if its
\* build column holds a NULL.
FlagsDropped ==
    /\ Len(select_keys) = Len(param_select_keys)
    /\ \A i \in DOMAIN select_keys :
          /\ select_keys[i].type = param_select_keys[i].type
          /\ select_keys[i].is_null_safe_equal =
                (param_select_keys[i].is_null_safe_equal
                     /\ param_select_keys[i].has_null)

SingleOrdinaryKey ==
    Len(select_keys) = 1 /\ ~select_keys[1].is_null_safe_equal

\* The type-specialized layouts the claim lists.
ListedLayouts ==
    [TYPE_BOOLEAN |-> "keyboolean", TYPE_TINYINT |-> "key8",
     TYPE_SMALLINT |-> "key16", TYPE_INT |-> "key32", TYPE_BIGINT |-> "key64",
     TYPE_LARGEINT |-> "key128", TYPE_FLOAT |-> "keyfloat",
     TYPE_DOUBLE |-> "keydouble", TYPE_DATE |-> "keydate",
     TYPE_DATETIME |-> "keydatetime", TYPE_DECIMAL32 |-> "keydecimal32",
     TYPE_DECIMAL64 |-> "keydecimal64", TYPE_DECIMAL128 |-> "keydecimal128",
     TYPE_VARCHAR |-> "keystring", TYPE_CHAR |-> "keystring"]

\* C18 as stated: the flags are dropped first; then a single key that is
\* not null-safe gets the type-specialized layout of its type if the type
\* is boolean, int8/16/32/64/128, float, double, date, datetime,
\* decimal32/64/128 or string, and the opaque-bytes layout otherwise.
C18_SingleKeyListedTypes ==
    Chosen =>
        /\ FlagsDropped
        /\ SingleOrdinaryKey =>
              hash_map_type =
                  IF select_keys[1].type \in DOMAIN ListedLayouts
                  THEN ListedLayouts[select_keys[1].type]
                  ELSE "slice"

\* C18 amended: the listed types and also the legacy decimal type
\* (DECIMALV2), which gets its own type-specialized layout.
C18_SingleKeyTypes ==
    Chosen =>
        /\ FlagsDropped
        /\ SingleOrdinaryKey =>
              hash_map_type =
                  IF select_keys[1].type \in DOMAIN ListedLayouts
                  THEN ListedLayouts[select_keys[1].type]
                  ELSE IF select_keys[1].type = "TYPE_DECIMALV2"
                  THEN "keydecimal"
                  ELSE "slice"

\* A single INT key declared null-safe whose build column holds no NULL:
\* the flag is dropped and the key gets the 32-bit layout.
C18_Witness ==
    /\ Chosen
    /\ Len(select_keys) = 1
    /\ param_select_keys[1].is_null_safe_equal
    /\ ~param_select_keys[1].has_null
    /\ select_keys[1].type = "TYPE_INT"
    /\ hash_map_type = "key32"

\* C19: build never leaves the 'empty' tag and never returns 'not
\* supported', and after a successful build neither do probe and
\* probe_remain.
C19_SelectionIsTotal ==
    Chosen =>
        /\ hash_map_type # "empty"
        /\ select_status # "not supported"

\* A single key of a type without layout of its own went to the
\* opaque-bytes layout and probe_remain returned OK.
C19_Witness ==
    /\ select_op = "probe_remain"
    /\ select_keys[1].type = "TYPE_HLL"
    /\ hash_map_type = "slice"
    /\ select_status = "OK"

(***************************************************************************)
(* Claims on SpecRef.                                                      *)
(***************************************************************************)
\* C38: the build operator releases exactly the references it acquired:
\* once close has returned, also after a prepare that returned an error,
\* the operator has called unref on the builder and on each read-only
\* prober as often as it has called ref on it.
C38_ReleasesWhatItAcquired ==
    \A u \in RefOperators :
        prep_pc[u] = "closed" =>
            \A j \in Joiners : unref_calls[u][j] = ref_calls[u][j]

(***************************************************************************)
(* Claims on SpecAppend.                                                   *)
(***************************************************************************)
\* The rows of the column before the append, and the rows appended.
OldRows == 1 .. Len(ap_column.data)
NewRows(chunk) == 1 .. chunk.num_rows

\* C31: when append_chunk widens a column to nullable, every earlier row
\* keeps its value and is marked non-null, the rows of the batch keep their
\* own null flags and values, and a nullable column stays nullable in
\* every later append.
C31_WideningKeepsRows ==
    [][\A chunk \in OutputChunks :
          AppendOutputChunk(chunk) =>
              /\ ap_column.nullable => ap_column'.nullable
              /\ \A i \in OldRows : ap_column'.data[i] = ap_column.data[i]
              /\ (~ap_column.nullable /\ ap_column'.nullable) =>
                    /\ chunk.column.nullable
                    /\ \A i \in OldRows : ap_column'.nulls[i] = 0
              /\ (~ap_column.nullable /\ chunk.column.nullable) =>
                    ap_column'.nullable
              /\ ap_column'.nullable =>
                    /\ Len(ap_column'.nulls) = Len(ap_column'.data)
                    /\ \A i \in NewRows(chunk) :
                          /\ ap_column'.nulls[Len(ap_column.data) + i]
                                = NullsOf(chunk.column)[i]
                          /\ ap_column'.data[Len(ap_column.data) + i]
                                = chunk.column.data[i]]_vars

\* A column created non-nullable took a batch without NULL, was widened by
\* a batch whose second row is NULL, and then took a non-nullable batch.
C31_Witness ==
    /\ ap_column.nullable
    /\ ap_column.data = <<DefaultValue, 1, 2, DefaultValue>>
    /\ ap_column.nulls = <<0, 0, 0, 1>>

\* C32: on a table that creates tuple columns, every tuple column of the
\* build chunk is as long as the build chunk's output columns, after any
\* sequence of append_chunk calls.
C32_MarkersAsLongAsColumns ==
    ap_need_tuple_columns =>
        \A t \in TupleIds :
            ap_markers[t] # <<>> =>
                Len(ap_markers[t]) = Len(ap_column.data)

(***************************************************************************)
(* More claims on SpecDedup.                                               *)
(***************************************************************************)
\* One call of remove_duplicate_index on all the rows handled so far, from
\* the counters the probe and build() left.
OneCall ==
    DedupRowsFrom(join_type,
                  [filter |-> filter_in,
                   probe_match_index |->
                       IF join_type \in KeepsProbeRows
                       THEN candidate_count
                       ELSE [p \in DedupRows |-> 0],
                   build_match_index |->
                       [b \in 0 .. MaxCandidates |-> IF b = 0 THEN 1 ELSE 0]],
                  SubSeq(all_probe_index, 1, rows_done),
                  SubSeq(all_build_index, 1, rows_done), 1)

\* C34: for every join type, once the calls on the consecutive batches of
\* a candidate sequence have handled all of it, the surviving rows,
\* probe_match_index and build_match_index are those one call on the whole
\* sequence leaves.
C34_BatchesAsOneCall ==
    DedupDone =>
        /\ filter_out = OneCall.filter
        /\ probe_match_index = OneCall.probe_match_index
        /\ build_match_index = OneCall.build_match_index

\* Under LEFT_OUTER the rows came in three batches of one row: the first
\* candidate of probe row 1 was rejected and counted down, the second was
\* rejected and kept as the row's last, and the row of probe row 2, which
\* has no candidate, was kept.
C34_Witness ==
    /\ join_type = "LEFT_OUTER_JOIN"
    /\ candidate_count[1] = 2
    /\ candidate_count[2] = 0
    /\ dedup_batches = 3
    /\ DedupDone
    /\ filter_in = <<0, 0, 0>>
    /\ filter_out = <<0, 1, 1>>
    /\ probe_match_index[1] = 1

\* A call of remove_duplicate_index, and the filter it was given.
DedupCall == dedup_batches' = dedup_batches + 1
GivenFilter == SubSeq(filter_in', rows_done + 1, rows_done')
ResultFilter == SubSeq(filter_out', rows_done + 1, rows_done')

\* C35: remove_duplicate_index touches only the state of its join type:
\* nothing for INNER; not build_match_index for LEFT_OUTER, LEFT_SEMI and
\* LEFT_ANTI; not probe_match_index for RIGHT_OUTER, RIGHT_SEMI and
\* RIGHT_ANTI, and not the keep vector for RIGHT_OUTER and RIGHT_ANTI.
C35_TouchesOnlyItsState ==
    [][DedupCall =>
          /\ join_type = "INNER_JOIN" =>
                /\ ResultFilter = GivenFilter
                /\ UNCHANGED <<probe_match_index, build_match_index>>
          /\ join_type \in {"LEFT_OUTER_JOIN", "LEFT_SEMI_JOIN",
                            "LEFT_ANTI_JOIN", "NULL_AWARE_LEFT_ANTI_JOIN"}
                => UNCHANGED build_match_index
          /\ join_type \in {"RIGHT_OUTER_JOIN", "RIGHT_SEMI_JOIN",
                            "RIGHT_ANTI_JOIN"}
                => UNCHANGED probe_match_index
          /\ join_type \in {"RIGHT_OUTER_JOIN", "RIGHT_ANTI_JOIN"}
                => ResultFilter = GivenFilter]_vars

\* RIGHT_ANTI: both candidates of probe row 1 were accepted and marked, the
\* filter came back as it was given; probe_remain has output nothing.
C35_Witness ==
    /\ join_type = "RIGHT_ANTI_JOIN"
    /\ candidate_count = [p \in DedupRows |-> IF p = 1 THEN 2 ELSE 0]
    /\ filter_in = <<1, 1>>
    /\ filter_out = <<1, 1>>
    /\ build_match_index[1] = 1 /\ build_match_index[2] = 1
    /\ remain.done /\ remain.rows = <<>>

\* C36: the match counters never underflow and build marks are never
\* undone: a call leaves no probe_match_index entry below 0, under
\* LEFT_OUTER and FULL_OUTER an entry that was at least 1 stays at least
\* 1, an entry goes down only if it was at least 1, and a
\* build_match_index entry that is 1 stays 1.
C36_CountersNeverUnderflow ==
    [][DedupCall =>
          /\ \A p \in DedupRows :
                /\ probe_match_index'[p] >= 0
                /\ probe_match_index'[p] < probe_match_index[p]
                      => probe_match_index[p] >= 1
                /\ (/\ join_type \in {"LEFT_OUTER_JOIN", "FULL_OUTER_JOIN"}
                    /\ probe_match_index[p] >= 1)
                      => probe_match_index'[p] >= 1
          /\ \A b \in 0 .. MaxCandidates :
                build_match_index[b] = 1 => build_match_index'[b] = 1]_vars

\* FULL_OUTER: probe row 1 has two candidates, both rejected; the count
\* went from 2 to 1 and the second row was kept; probe row 2's candidate
\* was accepted and marked its build row.
C36_Witness ==
    /\ join_type = "FULL_OUTER_JOIN"
    /\ candidate_count = <<2, 1>>
    /\ filter_in = <<0, 0, 1>>
    /\ filter_out = <<0, 1, 1>>
    /\ probe_match_index = <<1, 1>>
    /\ \E b \in DedupBuildRows : build_match_index[b] = 1

\* C37: the reserved build row 0 is never output as a build row: wherever
\* build_match_index is kept its entry 0 is 1, so under RIGHT_SEMI an
\* accepted candidate whose build index is 0 would be dropped, and the
\* scan of probe_remain does not surface row 0.
C37_RowZeroNeverOutput ==
    /\ build_match_index[0] = 1
    /\ join_type = "RIGHT_SEMI_JOIN" =>
          RightSemiRow(CarriedCounters(<<1>>), <<0>>, 1).filter = <<0>>
    /\ \A i \in DOMAIN remain.rows : remain.rows[i] # 0

\* FULL_OUTER: a probe row without candidate was output with build index
\* 0 and kept, and the scan has surfaced an unmatched build row.
C37_Witness ==
    /\ join_type = "FULL_OUTER_JOIN"
    /\ \E i \in DOMAIN filter_out :
          all_build_index[i] = 0 /\ filter_out[i] = 1
    /\ remain.done
    /\ remain.rows # <<>>

(***************************************************************************)
(* More claims on SpecJoin.                                                *)
(***************************************************************************)
\* The keys whose null_safe_equal flag _choose_join_hash_map has dropped.
DroppedKeys == {k \in KeyIds : param_join_keys[k] /\ ~join_keys[k]}

\* The table construct_hash_table makes of the build rows with the flags
\* as the plan gave them.
KeptTable ==
    ConstructHashTable(
        "memory",
        [first |-> [b \in 1 .. bucket_size |-> 0],
         next |-> [r \in 1 .. row_count + 1 |-> 0],
         slice |-> [r \in 1 .. row_count + 1 |-> <<>>]],
        param_join_keys, bucket_size, BuildNullColumns(param_join_keys))

\* lookup_init with the flags as the plan gave them: the probe row's key,
\* and whether the row is skipped for a NULL.
KeptKey(i) ==
    GetHashKey(probe_rows[i], DataColumns(param_join_keys, probe_nullable))

KeptProbeIsNull(i) ==
    \E k \in KeyIds :
        /\ ~param_join_keys[k]
        /\ HasNull(ChunkColumn(probe_rows, k))
        /\ IsNull(probe_rows[i][k])

\* The build rows of the chain from cur whose key view equals key.
RECURSIVE KeptMatches(_, _, _)
KeptMatches(t, cur, key) ==
    IF cur = 0 THEN {}
    ELSE (IF t.slice[cur + 1] = key THEN {cur} ELSE {})
             \cup KeptMatches(t, t.next[cur + 1], key)

KeptCandidates ==
    {pair \in (DOMAIN probe_rows) \X (1 .. row_count) :
        /\ ~KeptProbeIsNull(pair[1])
        /\ pair[2] \in KeptMatches(
               KeptTable,
               KeptTable.first[CalcBucketNum(KeptKey(pair[1]),
                                             bucket_size) + 1],
               KeptKey(pair[1]))}

OutCandidates == {out_pairs[j] : j \in DOMAIN out_pairs}

\* A probe row with NULL in a key whose flag was dropped has no candidate,
\* with the flag dropped and with the flag kept.
NullInDroppedKeyFindsNothing ==
    \A i \in DOMAIN probe_rows :
        (\E k \in DroppedKeys : IsNull(probe_rows[i][k])) =>
            \A r \in 1 .. row_count :
                <<i, r>> \notin OutCandidates \cup KeptCandidates

\* C39: dropping the null_safe_equal flag of a key whose build column
\* holds no NULL does not change the result: a probe batch has the same
\* candidate pairs as with the flag kept, and a probe row with NULL in
\* that key has no candidate in both cases.
C39_DroppingFlagKeepsCandidates ==
    (jt_pc = "probed" /\ DroppedKeys # {}) =>
        /\ OutCandidates = KeptCandidates
        /\ NullInDroppedKeyFindsNothing

\* The part of C39 that does not meet the serialization of C22: when the
\* probe column of every key the plan gave as null-safe has the
\* nullability of the build column, the candidates are the same with the
\* flag dropped and with the flag kept.
C39_SameWhenNullabilityAgrees ==
    (/\ jt_pc = "probed"
     /\ DroppedKeys # {}
     /\ \A k \in KeyIds :
           param_join_keys[k] => probe_nullable[k] = BuildNullable[k])
        => /\ OutCandidates = KeptCandidates
           /\ NullInDroppedKeyFindsNothing
====
